---------------------------- MODULE Spec2Model ----------------------------
(***************************************************************************)
(* CrowdSense: the ad-trigger state machine and ad selector/analytics      *)
(* recorder of src/ad_manager.py, the processing loop of src/app.py that   *)
(* drives them, and the identity tracker of src/tracker.py as owned by     *)
(* the camera of src/camera.py.                                            *)
(*                                                                         *)
(* Time is the wall clock time.time() in whole seconds.  A handler that    *)
(* runs under ad_lock is one atomic action that reads the clock once.      *)
(***************************************************************************)
EXTENDS Integers, Sequences, FiniteSets, TLC

VARIABLES
    \* ---- the wall clock and the analytics store (environment) ----
    now,                  \* time.time(), whole seconds
    storeUp,              \* whether a call on the analytics store succeeds
    mongo_counts,         \* the store's ad_analytics collection: ad_id -> display_count (0: no document)
    \* ---- AdManager fields (src/ad_manager.py) ----
    current_ad,
    ad_start_time,
    last_majority_gender,
    last_ad_change_time,
    ad_history,
    mongo_db,             \* TRUE: a store handle, FALSE: None
    local_analytics,      \* the in-memory mirror: ad_id -> display_count (0: no entry)
    male_ads,
    female_ads,
    neutral_ads,
    \* ---- the call made by the last step, with its arguments and what it returned ----
    ret,
    \* ---- the processing worker of src/app.py ----
    pc,
    decision,             \* its locals (should_show, target)
    \* ---- EuclideanDistTracker fields (src/tracker.py), as owned by VideoCamera ----
    objects,              \* the OrderedDict of tracks, in insertion order, with disappeared[id]
    next_object_id,
    issued,               \* every id handed out by register, in creation order, over the whole process
    \* ---- VideoCamera fields (src/camera.py) ----
    frame_skip_counter,   \* kept modulo detection_frame_skip, the only way it is read
    last_detection_counts,
    cap_opened,           \* is_opened(): self.cap is not None and self.cap.isOpened()
    \* ---- the threads and locks of the process (src/app.py, src/camera.py) ----
    person_net,           \* TRUE: the person model is loaded, FALSE: load_model returned None
    global_lock,          \* each lock: the thread that holds it, or "free"
    ad_lock,
    model_lock,
    req,                  \* each request worker's position in the route it serves
    w_counts,             \* the counts of the processing worker's get_frame call
    current_counts        \* app.py's current_counts, written under global_lock

adVars  == <<current_ad, ad_start_time, last_majority_gender, last_ad_change_time,
             ad_history, mongo_db, local_analytics, male_ads, female_ads, neutral_ads>>
envVars == <<now, storeUp, mongo_counts>>
appVars == <<pc, decision>>
camVars == <<frame_skip_counter, last_detection_counts, cap_opened>>
trkVars == <<objects, next_object_id, issued, camVars>>
thrVars == <<person_net, global_lock, ad_lock, model_lock, req, w_counts, current_counts>>
vars    == <<envVars, adVars, ret, appVars, trkVars, thrVars>>

\* The threads: the processing worker and the request workers
Worker   == "worker"
Requests == {"r1", "r2"}
Free     == "free"

---------------------------------------------------------------------------
\* Bounds of the model
MaxTime           == 17   \* the clock stops here
MaxSelects        == 3    \* select_ad calls in one run of Spec and of SpecStore
MaxDecideSelects  == 2    \* select_ad calls in one run of SpecDecide
MaxCatalogSelects == 2    \* select_ad calls in one run of SpecSelect
MaxHits           == 2    \* a track is matched until its hits reach this
MaxIssued         == 2    \* ids handed out in one run of SpecTracker, over every tracker created
MaxVoteHits       == 4    \* a track is matched until its hits reach this, in SpecVote
MaxVoteIssued     == 1    \* ids handed out in one run of SpecVote
MaxCameraHits     == 10   \* a track is matched until its hits reach this, in SpecCamera
MaxHistorySelects == 102  \* select_ad calls in one run of SpecHistory
MaxHistoryFemales == 1    \* of which select_ad("female") calls
MaxStatsSelects   == 1    \* select_ad calls in one run of SpecStats
MaxLockSelects    == 2    \* select_ad calls in one run of SpecAdLock
MaxThreadHits     == 10   \* a track is matched until its hits reach this, in SpecThreads
MaxThreadIssued   == 2    \* ids handed out in one run of SpecThreads
MaxCameraIssued   == 3    \* ids handed out in one run of SpecCamera

\* Program constants
AD_DISPLAY_DURATION == 15
AD_TRIGGER_DELAY    == 2
StartTime           == 1     \* the clock's first reading; time.time() is positive
NoTime              == -1    \* None in a timestamp field
max_disappeared     == 50    \* VideoCamera: EuclideanDistTracker(max_disappeared=50, ...)
max_distance        == 150   \* VideoCamera: EuclideanDistTracker(..., max_distance=150)
GENDER_HISTORY_MAX  == 20    \* update: the gender_history window
CONFIRM_HITS        == 10    \* get_frame: if obj['hits'] >= 10
CONFIDENCE_THRESHOLD == 75   \* config.CONFIDENCE_THRESHOLD = 0.75, in percent
detection_frame_skip == 2    \* VideoCamera: "Process every 2nd frame"
GENDER_CONFIDENCE_THRESHOLD == 75   \* config.GENDER_CONFIDENCE_THRESHOLD = 0.75, in percent
PERSON_CLASS_INDEX  == 15    \* src/camera.py
MIN_FACE            == 20    \* get_frame: "Filter small faces (noise)"
CAMERA_WIDTH        == 1920  \* config.CAMERA_WIDTH
CAMERA_HEIGHT       == 1080  \* config.CAMERA_HEIGHT

Max(a, b) == IF a >= b THEN a ELSE b

---------------------------------------------------------------------------
\* The ad catalog

NoAd == [id |-> "None", gender |-> "None"]

demo_male_ads    == <<"MALE_001", "MALE_002", "MALE_003", "MALE_004">>
demo_female_ads  == <<"FEMALE_001", "FEMALE_002", "FEMALE_003", "FEMALE_004", "FEMALE_005">>
demo_neutral_ads == <<"NEUTRAL_001", "NEUTRAL_002">>

\* _load_ads: the ids of the files found under ads/<gender>/ (here: none or one file a.jpg)
LocalInventories(gender_dir) ==
    { <<>>, << gender_dir \o "_A_JPG" >> }

\* __init__: "Use demo ads if no local files"
CatalogOrDemo(loaded, demo) == IF loaded = <<>> THEN demo ELSE loaded

Range(s) == { s[i] : i \in DOMAIN s }

AdIds == Range(demo_male_ads) \cup Range(demo_female_ads) \cup Range(demo_neutral_ads)
         \cup { "MALE_A_JPG", "FEMALE_A_JPG", "NEUTRAL_A_JPG" }

\* The gender arguments: the three buckets, and "other" for any other string
Genders == { "male", "female", "neutral", "other" }
Buckets == { "male", "female", "neutral" }


NoCounts == [id \in AdIds |-> 0]

\* counts as get_frame builds them (src/camera.py: total = male + female)
Counts(m, f) == [total |-> m + f, male |-> m, female |-> f]

\* The counts a frame delivers: nobody, one gender, a tie, a majority
FrameCounts == { Counts(0, 0), Counts(1, 0), Counts(0, 1), Counts(1, 1), Counts(2, 1),
                 Counts(1, 2) }

---------------------------------------------------------------------------
\* What a call returns.  ret names the call of the step just taken, its arguments
\* (gender, total) and its result; a step that is no call leaves NoCall.
\*   should_show_ad: (show, target), target a gender (kind "gender"), the current ad
\*                   (kind "ad") or None (kind "none")
\*   select_ad:      ad, or raised
\*   get_current_ad: ad
\*   get_ad_analytics: count, the display_count reported for each asset (0: not listed);
\*                   read tells where the documents came from

\*   update:         rects
\*   get_frame:      frame (whether frame bytes are returned) and counts; detected
\*                   tells a detection frame, raw the rects the detection cascade
\*                   built from the frame, rects those given to update

NoCall ==
    [op |-> "none", gender |-> "None", total |-> 0, show |-> FALSE, kind |-> "none",
     target |-> "None", ad |-> NoAd, raised |-> FALSE, read |-> "none",
     count |-> NoCounts, frame |-> FALSE, detected |-> FALSE, raw |-> <<>>,
     rects |-> <<>>, counts |-> Counts(0, 0), detections |-> <<>>,
     history |-> <<>>]

\* the three shapes of the pair should_show_ad returns
ReturnTrue(gender)  == [show |-> TRUE,  kind |-> "gender", target |-> gender, ad |-> NoAd]
ReturnFalseNone     == [show |-> FALSE, kind |-> "none",   target |-> "None", ad |-> NoAd]
ReturnFalseAd(ad)   == [show |-> FALSE, kind |-> "ad",     target |-> "None", ad |-> ad]

DecideCall(gender, counts, r) ==
    [NoCall EXCEPT !.op = "should_show_ad", !.gender = gender, !.total = counts.total,
                   !.show = r.show, !.kind = r.kind, !.target = r.target, !.ad = r.ad]

SelectCall(gender, ad) ==
    [NoCall EXCEPT !.op = "select_ad", !.gender = gender, !.ad = ad]

SelectRaised(gender) ==
    [NoCall EXCEPT !.op = "select_ad", !.gender = gender, !.raised = TRUE]

CurrentAdCall(ad) == [NoCall EXCEPT !.op = "get_current_ad", !.ad = ad]

ClearAdCall == [NoCall EXCEPT !.op = "clear_ad"]

AnalyticsCall(read, count) ==
    [NoCall EXCEPT !.op = "get_ad_analytics", !.read = read, !.count = count]

FrameCall(detected, raw, rects, counts) ==
    [NoCall EXCEPT !.op = "get_frame", !.frame = TRUE, !.detected = detected,
                   !.raw = raw, !.rects = rects, !.counts = counts]

\* update(rects) called on the tracker
UpdateCallOf(rects) ==
    [NoCall EXCEPT !.op = "update", !.rects = rects]

\* What the people_count route returns
PeopleCountCall(counts) ==
    [NoCall EXCEPT !.op = "people_count", !.counts = counts]

\* An exception raised in the processing worker's iteration, at the given stage
RaiseCall(stage) ==
    [NoCall EXCEPT !.op = "raise", !.kind = stage, !.raised = TRUE]

\* "return None, {}": no frame and an empty dict
EmptyDict == <<>>
\* the person detector's output for one frame and the rects built from it
DetectCall(detections, rects) ==
    [NoCall EXCEPT !.op = "detect", !.detections = detections, !.raw = rects]

\* what get_stats returns: the totals over the history and the current ad
StatsCall(total_ads_shown, male_ads_shown, female_ads_shown, ad) ==
    [NoCall EXCEPT !.op = "get_stats", !.ad = ad,
                   !.counts = [total |-> total_ads_shown, male |-> male_ads_shown,
                               female |-> female_ads_shown]]

HistoryCall(history) ==
    [NoCall EXCEPT !.op = "get_ad_history", !.history = history]

NoFrameCall == [NoCall EXCEPT !.op = "get_frame", !.counts = EmptyDict]

---------------------------------------------------------------------------
\* AdManager.should_show_ad

\* "if self.current_ad and self.ad_start_time": None and 0 are false
Truthy(t) == t # NoTime /\ t # 0

\* should_show_ad gone wrong: the display window compared with the trigger delay
should_show_ad_short_window(gender, counts) ==
    IF counts.total = 0 THEN ReturnFalseNone
    ELSE IF /\ current_ad # NoAd /\ Truthy(ad_start_time)
            /\ now - ad_start_time < AD_TRIGGER_DELAY
         THEN IF gender # last_majority_gender
              THEN ReturnTrue(gender)
              ELSE ReturnFalseAd(current_ad)
    ELSE IF /\ last_ad_change_time[gender] # NoTime
            /\ now - last_ad_change_time[gender] < AD_TRIGGER_DELAY
         THEN ReturnFalseNone
    ELSE ReturnTrue(gender)

\* should_show_ad gone wrong: the cooldown test dropped
should_show_ad_no_cooldown(gender, counts) ==
    IF counts.total = 0 THEN ReturnFalseNone
    ELSE IF /\ current_ad # NoAd /\ Truthy(ad_start_time)
            /\ now - ad_start_time < AD_DISPLAY_DURATION
         THEN IF gender # last_majority_gender
              THEN ReturnTrue(gender)
              ELSE ReturnFalseAd(current_ad)
    ELSE ReturnTrue(gender)

\* should_show_ad gone wrong: no preemptive switch while the ad is showing
should_show_ad_no_switch(gender, counts) ==
    IF counts.total = 0 THEN ReturnFalseNone
    ELSE IF /\ current_ad # NoAd /\ Truthy(ad_start_time)
            /\ now - ad_start_time < AD_DISPLAY_DURATION
         THEN ReturnFalseAd(current_ad)
    ELSE IF /\ last_ad_change_time[gender] # NoTime
            /\ now - last_ad_change_time[gender] < AD_TRIGGER_DELAY
         THEN ReturnFalseNone
    ELSE ReturnTrue(gender)

should_show_ad_total_late(gender, counts) ==
    IF /\ current_ad # NoAd /\ Truthy(ad_start_time)
       /\ now - ad_start_time < AD_DISPLAY_DURATION
    THEN IF gender # last_majority_gender
         THEN ReturnTrue(gender)
         ELSE ReturnFalseAd(current_ad)
    ELSE IF counts.total = 0 THEN ReturnFalseNone
    ELSE IF /\ last_ad_change_time[gender] # NoTime
            /\ now - last_ad_change_time[gender] < AD_TRIGGER_DELAY
         THEN ReturnFalseNone
    ELSE ReturnTrue(gender)

should_show_ad(gender, counts) ==
    IF counts.total = 0 THEN ReturnFalseNone
    ELSE IF /\ current_ad # NoAd /\ Truthy(ad_start_time)
            /\ now - ad_start_time < AD_DISPLAY_DURATION
         THEN IF gender # last_majority_gender
              THEN ReturnTrue(gender)
              ELSE ReturnFalseAd(current_ad)
    ELSE IF /\ last_ad_change_time[gender] # NoTime
            /\ now - last_ad_change_time[gender] < AD_TRIGGER_DELAY
         THEN ReturnFalseNone
    ELSE ReturnTrue(gender)

---------------------------------------------------------------------------
\* AdManager.select_ad and AdManager._track_ad_display

AD_HISTORY_MAX == 100

\* ads_list gone wrong: the else branch (neutral and every other gender) forgotten
ads_list_no_else(gender) ==
    LET byGender == IF gender = "male"
                    THEN (IF male_ads # <<>> THEN male_ads ELSE demo_male_ads)
                    ELSE IF gender = "female"
                    THEN (IF female_ads # <<>> THEN female_ads ELSE demo_female_ads)
                    ELSE <<>>
    IN  byGender

\* select_ad, up to random.choice: the list the ad is drawn from
ads_list(gender) ==
    LET byGender == IF gender = "male"
                    THEN (IF male_ads # <<>> THEN male_ads ELSE demo_male_ads)
                    ELSE IF gender = "female"
                    THEN (IF female_ads # <<>> THEN female_ads ELSE demo_female_ads)
                    ELSE (IF neutral_ads # <<>> THEN neutral_ads ELSE demo_neutral_ads)
    IN  IF byGender = <<>> THEN demo_neutral_ads ELSE byGender

\* TrackAdDisplay gone wrong: the return after the store write forgotten
TrackAdDisplayBoth(ad) ==
    IF mongo_db /\ storeUp
    THEN /\ mongo_counts' = [mongo_counts EXCEPT ![ad.id] = @ + 1]
         /\ local_analytics' = [local_analytics EXCEPT ![ad.id] = @ + 1]
    ELSE /\ local_analytics' = [local_analytics EXCEPT ![ad.id] = @ + 1]
         /\ UNCHANGED mongo_counts

\* _track_ad_display: upsert-increment in the store; when there is no handle or the
\* write raises, the same on the in-memory mirror (an absent entry is created at 0,
\* then incremented)
TrackAdDisplay(ad) ==
    IF mongo_db /\ storeUp
    THEN /\ mongo_counts' = [mongo_counts EXCEPT ![ad.id] = @ + 1]
         /\ UNCHANGED local_analytics
    ELSE /\ local_analytics' = [local_analytics EXCEPT ![ad.id] = @ + 1]
         /\ UNCHANGED mongo_counts

\* AppendHistory gone wrong: the newest entry popped
AppendHistoryDropNewest(h, ad) ==
    LET a == Append(h, ad)
    IN  IF Len(a) > AD_HISTORY_MAX THEN SubSeq(a, 1, Len(a) - 1) ELSE a

\* ad_history.append(...), then pop(0) when longer than 100
AppendHistory(h, ad) ==
    LET a == Append(h, ad)
    IN  IF Len(a) > AD_HISTORY_MAX THEN Tail(a) ELSE a

\* SelectAd gone wrong: the trigger time of every gender set
SelectAdAllTriggers(gender) ==
    /\ LET list == ads_list(gender)
       IN  IF list = <<>>
           THEN /\ ret' = SelectRaised(gender)
                /\ UNCHANGED <<adVars, mongo_counts>>
           ELSE \E i \in DOMAIN list :
                  LET ad == [id |-> list[i], gender |-> gender]
                  IN  /\ current_ad' = ad
                      /\ ad_start_time' = now
                      /\ last_ad_change_time' = [g \in Genders |-> now]
                      /\ last_majority_gender' = gender
                      /\ TrackAdDisplay(ad)
                      /\ ad_history' = AppendHistory(ad_history, ad)
                      /\ ret' = SelectCall(gender, ad)
                      /\ UNCHANGED <<mongo_db, male_ads, female_ads, neutral_ads>>
    /\ UNCHANGED <<now, storeUp, trkVars>>

\* select_ad(gender).  random.choice of an empty list raises before any field is set.
SelectAd(gender) ==
    /\ LET list == ads_list(gender)
       IN  IF list = <<>>
           THEN /\ ret' = SelectRaised(gender)
                /\ UNCHANGED <<adVars, mongo_counts>>
           ELSE \E i \in DOMAIN list :
                  LET ad == [id |-> list[i], gender |-> gender]
                  IN  /\ current_ad' = ad
                      /\ ad_start_time' = now
                      /\ last_ad_change_time' = [last_ad_change_time EXCEPT ![gender] = now]
                      /\ last_majority_gender' = gender
                      /\ TrackAdDisplay(ad)
                      /\ ad_history' = AppendHistory(ad_history, ad)
                      /\ ret' = SelectCall(gender, ad)
                      /\ UNCHANGED <<mongo_db, male_ads, female_ads, neutral_ads>>
    /\ UNCHANGED <<now, storeUp, trkVars>>

---------------------------------------------------------------------------
\* AdManager.get_current_ad, clear_ad, get_ad_analytics

\* GetCurrentAd gone wrong: the ad still returned when its duration has just elapsed
GetCurrentAdEarly ==
    /\ IF current_ad # NoAd /\ Truthy(ad_start_time)
       THEN IF now - ad_start_time < AD_TRIGGER_DELAY
            THEN /\ ret' = CurrentAdCall(current_ad)
                 /\ UNCHANGED <<current_ad, ad_start_time>>
            ELSE /\ current_ad' = NoAd
                 /\ ad_start_time' = NoTime
                 /\ ret' = CurrentAdCall(NoAd)
       ELSE /\ ret' = CurrentAdCall(current_ad)
            /\ UNCHANGED <<current_ad, ad_start_time>>
    /\ UNCHANGED <<envVars, last_majority_gender, last_ad_change_time, ad_history, mongo_db,
                   local_analytics, male_ads, female_ads, neutral_ads, appVars, trkVars>>

GetCurrentAdLate ==
    /\ IF current_ad # NoAd /\ Truthy(ad_start_time)
       THEN IF now - ad_start_time <= AD_DISPLAY_DURATION
            THEN /\ ret' = CurrentAdCall(current_ad)
                 /\ UNCHANGED <<current_ad, ad_start_time>>
            ELSE /\ current_ad' = NoAd
                 /\ ad_start_time' = NoTime
                 /\ ret' = CurrentAdCall(NoAd)
       ELSE /\ ret' = CurrentAdCall(current_ad)
            /\ UNCHANGED <<current_ad, ad_start_time>>
    /\ UNCHANGED <<envVars, last_majority_gender, last_ad_change_time, ad_history, mongo_db,
                   local_analytics, male_ads, female_ads, neutral_ads, appVars, trkVars>>

\* get_current_ad: lazy expiry
GetCurrentAd ==
    /\ IF current_ad # NoAd /\ Truthy(ad_start_time)
       THEN IF now - ad_start_time < AD_DISPLAY_DURATION
            THEN /\ ret' = CurrentAdCall(current_ad)
                 /\ UNCHANGED <<current_ad, ad_start_time>>
            ELSE /\ current_ad' = NoAd
                 /\ ad_start_time' = NoTime
                 /\ ret' = CurrentAdCall(NoAd)
       ELSE /\ ret' = CurrentAdCall(current_ad)
            /\ UNCHANGED <<current_ad, ad_start_time>>
    /\ UNCHANGED <<envVars, last_majority_gender, last_ad_change_time, ad_history, mongo_db,
                   local_analytics, male_ads, female_ads, neutral_ads, appVars, trkVars>>

ClearAdAll ==
    /\ current_ad' = NoAd
    /\ ad_start_time' = NoTime
    /\ last_ad_change_time' = [g \in Genders |-> NoTime]
    /\ last_majority_gender' = "None"
    /\ ret' = ClearAdCall
    /\ UNCHANGED <<envVars, ad_history, mongo_db, local_analytics, male_ads, female_ads,
                   neutral_ads, appVars, trkVars>>

ClearAd ==
    /\ current_ad' = NoAd
    /\ ad_start_time' = NoTime
    /\ ret' = ClearAdCall
    /\ UNCHANGED <<envVars, last_majority_gender, last_ad_change_time, ad_history, mongo_db,
                   local_analytics, male_ads, female_ads, neutral_ads, appVars, trkVars>>

\* MergeAnalytics gone wrong: the two counts added together
MergeAnalyticsSum(mongo_ads) ==
    [id \in AdIds |-> mongo_ads[id] + local_analytics[id]]

\* get_ad_analytics, the merge: all_ads_dict is filled from the documents read, then
\* every mirror entry either raises the count to the larger of the two or is added
MergeAnalytics(mongo_ads) ==
    [id \in AdIds |->
        IF local_analytics[id] > 0
        THEN IF mongo_ads[id] > 0
             THEN Max(mongo_ads[id], local_analytics[id])
             ELSE local_analytics[id]
        ELSE mongo_ads[id]]

\* get_ad_analytics.  "if self.mongo_db:" is the truth test of the driver's handle,
\* which yields true or raises, as the driver decides; find() raises when the store
\* is down; any exception outside the inner try empties the report.
GetAdAnalytics ==
    /\ \E truthTestRaises \in BOOLEAN :
         ret' = IF mongo_db /\ truthTestRaises
                THEN AnalyticsCall("failed", NoCounts)
                ELSE IF mongo_db /\ storeUp
                THEN AnalyticsCall("store", MergeAnalytics(mongo_counts))
                ELSE AnalyticsCall("mirror", MergeAnalytics(NoCounts))
    /\ UNCHANGED <<envVars, adVars, appVars, trkVars, thrVars>>

---------------------------------------------------------------------------
\* The environment: the clock and the store's availability

Tick ==
    /\ now < MaxTime
    /\ now' = now + 1
    /\ ret' = NoCall
    /\ UNCHANGED <<storeUp, mongo_counts, adVars, appVars, trkVars, thrVars>>

StoreFail ==
    /\ storeUp
    /\ storeUp' = FALSE
    /\ ret' = NoCall
    /\ UNCHANGED <<now, mongo_counts, adVars, appVars, trkVars, thrVars>>

StoreRecover ==
    /\ ~storeUp
    /\ storeUp' = TRUE
    /\ ret' = NoCall
    /\ UNCHANGED <<now, mongo_counts, adVars, appVars, trkVars, thrVars>>

---------------------------------------------------------------------------
\* The processing worker (src/app.py, background_thread)

\* "Determine majority"
MajorityTieNeutral(counts) ==
    IF counts.male > counts.female THEN "male"
    ELSE IF counts.female > counts.male THEN "female"
    ELSE "neutral"

Majority(counts) ==
    IF counts.male > counts.female THEN "male"
    ELSE IF counts.female > counts.male THEN "female"
    ELSE IF counts.male > 0 THEN "male" ELSE "neutral"

\* should_show and target are locals of one iteration of the loop: unbound outside it
NoDecision == [show |-> FALSE, kind |-> "unset", target |-> "None", ad |-> NoAd]

\* One frame: counts from get_frame, then should_show_ad when total > 0; the iteration
\* goes on to select_ad only "if should_show and target"
BackgroundFrame ==
    /\ pc = "frame"
    /\ \E counts \in FrameCounts :
         LET result == should_show_ad(Majority(counts), counts)
         IN  IF counts.total > 0
             THEN /\ ret' = DecideCall(Majority(counts), counts, result)
                  /\ IF result.show /\ result.kind = "gender"
                     THEN decision' = result /\ pc' = "select"
                     ELSE UNCHANGED <<decision, pc>>
             ELSE /\ ret' = NoCall
                  /\ UNCHANGED <<decision, pc>>
    /\ UNCHANGED <<envVars, adVars, trkVars, thrVars>>

\* "ad = ad_manager.select_ad(target)", which ends the iteration
BackgroundSelect ==
    /\ pc = "select"
    /\ Len(ad_history) < MaxSelects
    /\ SelectAd(decision.target)
    /\ decision' = NoDecision
    /\ pc' = "frame"
    /\ UNCHANGED thrVars

\* the /ad/current route, served by a request worker
CurrentAdRoute ==
    /\ GetCurrentAd
    /\ UNCHANGED thrVars

---------------------------------------------------------------------------
\* Direct calls on the AdManager, in any order and with any argument

\* should_show_ad reads counts.total alone
CallCounts == { Counts(0, 0), Counts(1, 1) }

ApiShouldShowAdRecords(genders) ==
    /\ \E g \in genders, counts \in CallCounts :
         /\ ret' = DecideCall(g, counts, should_show_ad(g, counts))
         /\ last_majority_gender' = IF counts.total > 0 THEN g ELSE last_majority_gender
    /\ UNCHANGED <<envVars, current_ad, ad_start_time, last_ad_change_time, ad_history,
                   mongo_db, local_analytics, male_ads, female_ads, neutral_ads,
                   appVars, trkVars, thrVars>>

ApiShouldShowAd(genders) ==
    /\ \E g \in genders, counts \in CallCounts :
         ret' = DecideCall(g, counts, should_show_ad(g, counts))
    /\ UNCHANGED <<envVars, adVars, appVars, trkVars, thrVars>>

ApiSelectAd(genders, maxCalls) ==
    /\ Len(ad_history) < maxCalls
    /\ \E g \in genders : SelectAd(g)
    /\ UNCHANGED <<appVars, thrVars>>

\* select_ad calls for the one male and the one female ad, the mirror counting them
HistorySelect ==
    /\ local_analytics["MALE_A_JPG"] + local_analytics["FEMALE_A_JPG"] < MaxHistorySelects
    /\ \E g \in {"male", "female"} :
         /\ g = "female" => local_analytics["FEMALE_A_JPG"] < MaxHistoryFemales
         /\ SelectAd(g)
    /\ UNCHANGED <<appVars, thrVars>>

ApiGetCurrentAd ==
    /\ GetCurrentAd
    /\ UNCHANGED thrVars

ApiClearAd ==
    /\ ClearAd
    /\ UNCHANGED thrVars

---------------------------------------------------------------------------
\* EuclideanDistTracker (src/tracker.py), created and replaced by VideoCamera

\* The tracker object: objects is the OrderedDict in insertion order, each track
\* carrying its disappeared[id]
Tracker == [objects |-> objects, next_object_id |-> next_object_id, issued |-> issued]

\* A detection: bbox (x, y, w, h), gender, confidence in percent (what the detection
\* cascade appends is above CONFIDENCE_THRESHOLD or GENDER_CONFIDENCE_THRESHOLD, 75)
Detection(bbox, gender, confidence) ==
    [bbox |-> bbox, gender |-> gender, confidence |-> confidence]

\* Three people: the first two within max_distance of one another (100 apart), the
\* third farther than max_distance from both (300 and 200)
PersonLeft  == Detection(<<0, 0, 21, 40>>, "Male", 90)
PersonMid   == Detection(<<100, 0, 20, 40>>, "Female", 80)
PersonRight == Detection(<<300, 0, 20, 40>>, "Unknown", 76)
Detections  == {PersonLeft, PersonMid, PersonRight}
\* A fourth person, farther than max_distance from the other three
PersonFar   == Detection(<<600, 0, 20, 40>>, "Female", 78)

\* The rects of one frame: nobody, the first person alone at either place, or the
\* first and the third person together
TrackerFrames ==
    { <<>>, <<PersonLeft>>, <<PersonMid>>, <<PersonLeft, PersonRight>> }

\* cX = int(x + w / 2.0), cY = int(y + h / 2.0), on non-negative coordinates
Centroid(bbox) ==
    << (2 * bbox[1] + bbox[3]) \div 2, (2 * bbox[2] + bbox[4]) \div 2 >>

\* _dist, squared: the Euclidean norm orders and compares as its square does
Dist2(a, b) ==
    (a[1] - b[1]) * (a[1] - b[1]) + (a[2] - b[2]) * (a[2] - b[2])

MinOf(S) == CHOOSE x \in S : \A y \in S : x <= y

IdsOf(objs) == { objs[i].id : i \in DOMAIN objs }

\* self.objects[key] = value on the OrderedDict: a new key goes last, an existing
\* key keeps its place
DictSet(objs, track) ==
    IF track.id \in IdsOf(objs)
    THEN [i \in DOMAIN objs |-> IF objs[i].id = track.id THEN track ELSE objs[i]]
    ELSE Append(objs, track)

register(t, centroid, bbox, gender, confidence) ==
    [objects |-> DictSet(t.objects,
                         [id |-> t.next_object_id, centroid |-> centroid,
                          bbox |-> bbox, gender |-> gender,
                          confidence |-> confidence,
                          gender_history |-> <<gender>>, hits |-> 1,
                          disappeared |-> 0]),
     next_object_id |-> t.next_object_id + 1,
     issued |-> Append(t.issued, t.next_object_id)]

deregister(objs, object_id) ==
    LET Other(o) == o.id # object_id IN SelectSeq(objs, Other)

\* Expired gone wrong: a track is given one more missed update
ExpiredEarly(track) == track.disappeared >= max_disappeared

ExpiredLate(track) == track.disappeared > max_disappeared + 1

\* if self.disappeared[object_id] > self.max_disappeared
Expired(track) == track.disappeared > max_disappeared

\* for the tracks in ids: disappeared[object_id] += 1, then deregister when Expired
\* (lines 35-38 and 95-99); one track's turn does not touch another track
RECURSIVE DeregisterEach(_, _)
DeregisterEach(objs, ids) ==
    IF ids = {} THEN objs
    ELSE LET object_id == MinOf(ids)
         IN DeregisterEach(deregister(objs, object_id), ids \ {object_id})

MissedUpdateRestart(objs, ids) ==
    LET aged == [i \in DOMAIN objs |->
                   IF objs[i].id \in ids
                   THEN [objs[i] EXCEPT !.disappeared = @ + 1, !.hits = 0]
                   ELSE objs[i]]
    IN DeregisterEach(aged, { aged[i].id : i \in { j \in DOMAIN aged :
                                  aged[j].id \in ids /\ Expired(aged[j]) } })

MissedUpdate(objs, ids) ==
    LET aged == [i \in DOMAIN objs |->
                   IF objs[i].id \in ids
                   THEN [objs[i] EXCEPT !.disappeared = @ + 1]
                   ELSE objs[i]]
    IN DeregisterEach(aged, { aged[i].id : i \in { j \in DOMAIN aged :
                                  aged[j].id \in ids /\ Expired(aged[j]) } })

\* Counter(gender_history).most_common(1)[0][0]: the highest count, and among equal
\* counts the label that entered the history first
most_common(history) ==
    LET labels == { history[i] : i \in DOMAIN history }
        Count(l) == Cardinality({ i \in DOMAIN history : history[i] = l })
        First(l) == MinOf({ i \in DOMAIN history : history[i] = l })
    IN CHOOSE l \in labels :
         \A k \in labels :
            \/ Count(l) > Count(k)
            \/ Count(l) = Count(k) /\ First(l) <= First(k)

\* update, lines 70-88: the track after it is matched to rect
MatchedLatest(track, centroid, rect) ==
    LET voted == rect.gender # "Unknown"
        appended == Append(track.gender_history, rect.gender)
        history == IF ~voted THEN track.gender_history
                   ELSE IF Len(appended) > GENDER_HISTORY_MAX THEN Tail(appended)
                   ELSE appended
    IN [track EXCEPT
          !.centroid = centroid,
          !.bbox = rect.bbox,
          !.gender_history = history,
          !.gender = IF voted THEN most_common(history) ELSE @,
          !.confidence = rect.confidence,
          !.hits = @ + 1,
          !.disappeared = 0]

Matched(track, centroid, rect) ==
    LET voted == rect.gender # "Unknown"
        appended == Append(track.gender_history, rect.gender)
        history == IF ~voted THEN track.gender_history
                   ELSE IF Len(appended) > GENDER_HISTORY_MAX THEN Tail(appended)
                   ELSE appended
    IN [track EXCEPT
          !.centroid = centroid,
          !.bbox = rect.bbox,
          !.gender_history = history,
          !.gender = IF voted THEN most_common(history) ELSE @,
          !.confidence = Max(@, rect.confidence),
          !.hits = @ + 1,
          !.disappeared = 0]

\* D[row][col]: squared distance from the row-th track to the col-th input centroid
DistMatrix(objs, input_centroids) ==
    [row \in DOMAIN objs |->
        [col \in DOMAIN input_centroids |->
            Dist2(objs[row].centroid, input_centroids[col])]]

RowMin(D, row) == MinOf({ D[row][col] : col \in DOMAIN D[row] })

\* D.argmin(axis=1): the first column that holds the row's minimum
ArgMin(D, row) == MinOf({ col \in DOMAIN D[row] : D[row][col] = RowMin(D, row) })

\* D.min(axis=1).argsort(): the rows by ascending minimum; the default sort is not
\* stable, so rows with equal minima come in either order
RowOrders(objs, rects) ==
    IF Len(rects) = 0 \/ Len(objs) = 0 THEN { <<>> }
    ELSE LET D == DistMatrix(objs, [i \in DOMAIN rects |-> Centroid(rects[i].bbox)])
             n == Len(objs)
         IN { rows \in [1..n -> 1..n] :
                /\ \A i, j \in 1..n : i # j => rows[i] # rows[j]
                /\ \A i, j \in 1..n : i < j => RowMin(D, rows[i]) <= RowMin(D, rows[j]) }

\* update, lines 62-90: the loop over zip(rows, cols) from its k-th pair on
RECURSIVE MatchLoopSharedCols(_, _, _, _, _, _, _, _)
MatchLoopSharedCols(objs, rects, input_centroids, D, rows, k, used_rows, used_cols) ==
    IF k > Len(rows)
    THEN [objects |-> objs, used_rows |-> used_rows, used_cols |-> used_cols]
    ELSE LET row == rows[k]
             col == ArgMin(D, row)
         IN IF row \in used_rows
            THEN MatchLoopSharedCols(objs, rects, input_centroids, D, rows, k + 1,
                                     used_rows, used_cols)
            ELSE IF D[row][col] > max_distance * max_distance
            THEN MatchLoopSharedCols(objs, rects, input_centroids, D, rows, k + 1,
                                     used_rows, used_cols)
            ELSE MatchLoopSharedCols([objs EXCEPT
                              ![row] = Matched(@, input_centroids[col], rects[col])],
                           rects, input_centroids, D, rows, k + 1,
                           used_rows \cup {row}, used_cols \cup {col})

RECURSIVE MatchLoop(_, _, _, _, _, _, _, _)
MatchLoop(objs, rects, input_centroids, D, rows, k, used_rows, used_cols) ==
    IF k > Len(rows)
    THEN [objects |-> objs, used_rows |-> used_rows, used_cols |-> used_cols]
    ELSE LET row == rows[k]
             col == ArgMin(D, row)
         IN IF row \in used_rows \/ col \in used_cols
            THEN MatchLoop(objs, rects, input_centroids, D, rows, k + 1,
                           used_rows, used_cols)
            ELSE IF D[row][col] > max_distance * max_distance
            THEN MatchLoop(objs, rects, input_centroids, D, rows, k + 1,
                           used_rows, used_cols)
            ELSE MatchLoop([objs EXCEPT
                              ![row] = Matched(@, input_centroids[col], rects[col])],
                           rects, input_centroids, D, rows, k + 1,
                           used_rows \cup {row}, used_cols \cup {col})

\* for col in cols: self.register(...), in ascending order
RECURSIVE RegisterAll(_, _, _, _)
RegisterAll(t, rects, input_centroids, cols) ==
    IF cols = {} THEN t
    ELSE LET col == MinOf(cols)
         IN RegisterAll(register(t, input_centroids[col], rects[col].bbox,
                                 rects[col].gender, rects[col].confidence),
                        rects, input_centroids, cols \ {col})

\* update(rects), with rows the order argsort gives
update(t, rects, rows) ==
    IF Len(rects) = 0
    THEN [t EXCEPT !.objects = MissedUpdate(@, IdsOf(@))]
    ELSE LET input_centroids == [i \in DOMAIN rects |-> Centroid(rects[i].bbox)]
         IN IF Len(t.objects) = 0
            THEN RegisterAll(t, rects, input_centroids, DOMAIN rects)
            ELSE LET D == DistMatrix(t.objects, input_centroids)
                     m == MatchLoop(t.objects, rects, input_centroids, D, rows, 1,
                                    {}, {})
                     unused_rows == (DOMAIN t.objects) \ m.used_rows
                     unused_cols == (DOMAIN rects) \ m.used_cols
                     aged == MissedUpdate(m.objects,
                                          { t.objects[row].id : row \in unused_rows })
                 IN RegisterAll([t EXCEPT !.objects = aged], rects, input_centroids,
                                unused_cols)

\* update(rects), called on the camera's tracker
UpdateCall(frames, maxHits, maxIssued) ==
    /\ \E rects \in frames : \E rows \in RowOrders(objects, rects) :
         \E t \in { update(Tracker, rects, rows) } :
            /\ \A i \in DOMAIN t.objects : t.objects[i].hits <= maxHits
            /\ Len(t.issued) <= maxIssued
            /\ objects' = t.objects
            /\ next_object_id' = t.next_object_id
            /\ issued' = t.issued
            /\ ret' = UpdateCallOf(rects)
    /\ UNCHANGED <<camVars, envVars, adVars, appVars, thrVars>>

TrackerUpdate == UpdateCall(TrackerFrames, MaxHits, MaxIssued)

\* Nobody, two people 100 apart, or two observations of which the first is the nearest
\* of both people and the second is within max_distance of the farther one only
PersonNear   == Detection(<<40, 0, 20, 40>>, "Male", 85)
PersonBeyond == Detection(<<200, 0, 20, 40>>, "Female", 85)

MatchFrames == { <<>>, <<PersonLeft, PersonMid>>, <<PersonNear, PersonBeyond>> }

MatchUpdate == UpdateCall(MatchFrames, MaxVoteHits, MaxCameraIssued)

\* One person seen at either of the two near places, or nobody
VoteFrames == { <<>>, <<PersonLeft>>, <<PersonMid>> }

VoteUpdate == UpdateCall(VoteFrames, MaxVoteHits, MaxVoteIssued)

---------------------------------------------------------------------------
\* VideoCamera (src/camera.py)

\* Confirmed gone wrong: a track counted one hit early
ConfirmedEarly(track) == track.hits >= CONFIRM_HITS - 1

\* get_frame: "Filter ghost tracks: require MORE hits to confirm presence"
Confirmed(track) == track.hits >= CONFIRM_HITS

\* get_frame, "Count": the loop over objects.items() from its k-th track on
RECURSIVE CountLoop(_, _, _, _)
CountLoop(objs, k, male, female) ==
    IF k > Len(objs) THEN Counts(male, female)
    ELSE IF ~Confirmed(objs[k]) THEN CountLoop(objs, k + 1, male, female)
    ELSE IF objs[k].gender = "Male" THEN CountLoop(objs, k + 1, male + 1, female)
    ELSE IF objs[k].gender = "Female" THEN CountLoop(objs, k + 1, male, female + 1)
    ELSE CountLoop(objs, k + 1, male, female)

CrowdCounts(objs) == CountLoop(objs, 1, 0, 0)

\* get_frame, "Convert (x, y, w, h) to (x1, y1, x2, y2) for NMS"
ToXYXY(bbox) == << bbox[1], bbox[2], bbox[1] + bbox[3], bbox[2] + bbox[4] >>

Min(a, b) == IF a <= b THEN a ELSE b

\* get_frame, the detection loop.  One detection of the person detector is its
\* confidence (percent), its class index, its box (startX, startY, endX, endY) scaled
\* to the frame, and what the later stages answer on its region: the faces the
\* available face detector finds (x, y, w, h within the region) and the gender
\* classifier's answer on the padded face (g "None" when it has none or raises)
PersonDetection(confidence, idx, box, faces, predicted) ==
    [confidence |-> confidence, idx |-> idx, box |-> box, faces |-> faces,
     predicted |-> predicted]

\* the length of the numpy slice a:b of an axis of n elements, a >= 0
SliceLen(a, b, n) ==
    LET lo == Min(a, n)
        hi == IF b < 0 THEN Max(b + n, 0) ELSE Min(b, n)
    IN Max(hi - lo, 0)

\* "Clamp"
Clamp(box) ==
    << Max(0, box[1]), Max(0, box[2]), Min(CAMERA_WIDTH, box[3]),
       Min(CAMERA_HEIGHT, box[4]) >>

\* person_roi.shape[:2] of a clamped box: (rows, columns)
RoiShape(box) ==
    << SliceLen(box[2], box[4], CAMERA_HEIGHT), SliceLen(box[1], box[3], CAMERA_WIDTH) >>

\* faces[0] after sorted(faces, key=area, reverse=True): the first of the largest
LargestFace(faces) ==
    LET area(k) == faces[k][3] * faces[k][4]
        first == MinOf({ k \in DOMAIN faces : \A m \in DOMAIN faces : area(k) >= area(m) })
    IN faces[first]

\* face_roi.shape[:2]: the face widened by 20% on each side, within the person region
FaceRoiShape(face, roi) ==
    LET padding_x == face[3] \div 5
        padding_y == face[4] \div 5
        face_x1 == Max(0, face[1] - padding_x)
        face_y1 == Max(0, face[2] - padding_y)
        face_x2 == Min(roi[2], face[1] + face[3] + padding_x)
        face_y2 == Min(roi[1], face[2] + face[4] + padding_y)
    IN << SliceLen(face_y1, face_y2, roi[1]), SliceLen(face_x1, face_x2, roi[2]) >>

\* What one detection appends to rects: nothing, or one observation
DetectOne(det) ==
    IF ~(det.confidence > CONFIDENCE_THRESHOLD) THEN <<>>
    ELSE IF det.idx # PERSON_CLASS_INDEX THEN <<>>
    ELSE LET box == Clamp(det.box)
             roi == RoiShape(box)
             bbox == << box[1], box[2], box[3] - box[1], box[4] - box[2] >>
         IN IF roi[1] * roi[2] = 0 THEN <<>>
            ELSE IF Len(det.faces) > 0
            THEN LET shape == FaceRoiShape(LargestFace(det.faces), roi)
                     accepted == /\ det.predicted.g # "None"
                                 /\ det.predicted.c > GENDER_CONFIDENCE_THRESHOLD
                 IN IF shape[1] < MIN_FACE \/ shape[2] < MIN_FACE
                    THEN <<>>
                    ELSE << Detection(bbox,
                                      IF accepted THEN det.predicted.g ELSE "Unknown",
                                      IF accepted THEN det.predicted.c
                                      ELSE det.confidence) >>
            ELSE << Detection(bbox, "Unknown", det.confidence) >>

\* "for i in range(detections.shape[2])"
RECURSIVE DetectLoop(_, _, _)
DetectLoop(detections, i, rects) ==
    IF i > Len(detections) THEN rects
    ELSE DetectLoop(detections, i + 1, rects \o DetectOne(detections[i]))

DetectPersons(detections) == DetectLoop(detections, 1, <<>>)

\* The detections of a frame: at or over the person threshold, a person or another
\* class, a box inside the frame or wholly beyond its right edge, with no face, a large
\* face, a small one, both, or a large one cut by the region's edge, and a confident,
\* an unconfident or no answer of the gender classifier
InsideBox == <<100, 50, 300, 450>>
BeyondBox == <<1930, 50, 2100, 450>>
FaceBig   == <<50, 20, 60, 60>>
FaceSmall == <<50, 20, 12, 12>>
FaceEdge  == <<190, 20, 30, 30>>

CascadeDetections ==
    { PersonDetection(confidence, idx, box, faces, predicted) :
        confidence \in {CONFIDENCE_THRESHOLD, 90},
        idx \in {PERSON_CLASS_INDEX, 7},
        box \in {InsideBox, BeyondBox},
        faces \in { <<>>, <<FaceBig>>, <<FaceSmall>>, <<FaceSmall, FaceBig>>,
                    <<FaceEdge>> },
        predicted \in { [g |-> "Male", c |-> 90],
                        [g |-> "Female", c |-> GENDER_CONFIDENCE_THRESHOLD],
                        [g |-> "None", c |-> 0] } }

\* A person with a large face the classifier is sure of, one with a small face, one
\* with no face
LabelledPerson  == PersonDetection(90, PERSON_CLASS_INDEX, InsideBox, <<FaceBig>>,
                                   [g |-> "Male", c |-> 90])
SmallFacePerson == PersonDetection(80, PERSON_CLASS_INDEX, InsideBox, <<FaceSmall>>,
                                   [g |-> "Female", c |-> 90])
FacelessPerson  == PersonDetection(85, PERSON_CLASS_INDEX, InsideBox, <<>>,
                                   [g |-> "None", c |-> 0])

\* One detection of any kind in the frame, or two of these three people
CascadeFrames ==
    { <<det>> : det \in CascadeDetections }
    \cup { <<first, second>> :
             first \in {LabelledPerson, SmallFacePerson, FacelessPerson},
             second \in {LabelledPerson, SmallFacePerson, FacelessPerson} }

\* get_frame from the person detector's output to the rects handed to the suppression
DetectFrame ==
    /\ \E detections \in CascadeFrames :
         ret' = DetectCall(detections, DetectPersons(detections))
    /\ UNCHANGED <<envVars, adVars, appVars, trkVars, thrVars>>

\* The area two boxes share and the area they cover, each box (x, y, width, height)
RectInter(a, b) ==
    LET w == Min(a[1] + a[3], b[1] + b[3]) - Max(a[1], b[1])
        h == Min(a[2] + a[4], b[2] + b[4]) - Max(a[2], b[2])
    IN IF w > 0 /\ h > 0 THEN w * h ELSE 0

RectUnion(a, b) == a[3] * a[4] + b[3] * b[4] - RectInter(a, b)

\* overlap ratio > 0.4, the nms_threshold get_frame passes: 5 * inter > 2 * union
OverThreshold(a, b) == 5 * RectInter(a, b) > 2 * RectUnion(a, b)

\* cv2.dnn.NMSBoxes: the indices above score_threshold by descending score (equal
\* scores in their given order) ...
RECURSIVE ByScore(_, _)
ByScore(scores, idxs) ==
    IF idxs = {} THEN <<>>
    ELSE LET best == CHOOSE i \in idxs :
                        \A j \in idxs : \/ scores[i] > scores[j]
                                        \/ scores[i] = scores[j] /\ i <= j
         IN <<best>> \o ByScore(scores, idxs \ {best})

\* ... each kept when its overlap with every index kept before it is not over the
\* threshold.  NMSBoxes reads each box as a Rect (x, y, width, height).
RECURSIVE NMSLoop(_, _, _, _)
NMSLoop(bboxes, order, k, kept) ==
    IF k > Len(order) THEN kept
    ELSE LET idx == order[k]
             keep == \A j \in DOMAIN kept : ~OverThreshold(bboxes[idx], bboxes[kept[j]])
         IN NMSLoop(bboxes, order, k + 1, IF keep THEN Append(kept, idx) ELSE kept)

NMSBoxes(bboxes, scores) ==
    NMSLoop(bboxes,
            ByScore(scores, { i \in DOMAIN scores : scores[i] > CONFIDENCE_THRESHOLD }),
            1, <<>>)

\* get_frame, "Apply Non-Maximum Suppression": rects = [rects[i] for i in indices]
Deduplicate(rects) ==
    IF Len(rects) = 0 THEN rects
    ELSE LET boxes_xyxy == [i \in DOMAIN rects |-> ToXYXY(rects[i].bbox)]
             confidences == [i \in DOMAIN rects |-> rects[i].confidence]
             indices == NMSBoxes(boxes_xyxy, confidences)
         IN [k \in DOMAIN indices |-> rects[indices[k]]]

\* The rects of one frame of the camera: the first and the third person, with or
\* without the fourth, or the fourth alone
CameraFrames ==
    { <<PersonLeft, PersonRight>>, <<PersonLeft, PersonRight, PersonFar>>,
      <<PersonFar>> }

\* Two people near the frame's origin and two far from it, as boxes of 100 x 100
NearA == Detection(<<0, 0, 100, 100>>, "Male", 90)
NearB == Detection(<<20, 0, 100, 100>>, "Female", 80)
NearC == Detection(<<82, 0, 100, 100>>, "Unknown", 76)
AwayA == Detection(<<500, 0, 100, 100>>, "Male", 90)
AwayB == Detection(<<590, 0, 100, 100>>, "Female", 80)

\* Two raw boxes of one frame: overlapping by 2/3, by about 0.1 and by about 0.05
DedupFrames ==
    { <<NearA, NearB>>, <<NearB, NearA>>, <<NearA, NearC>>, <<AwayA, AwayB>> }

\* SkippedCounts gone wrong: a skipped frame reports an empty scene
SkippedCountsZero == Counts(0, 0)

\* "counts = self.last_detection_counts" of a frame whose detection is skipped
SkippedCounts == last_detection_counts

\* get_frame.  A camera that is not opened is opened first, which may fail; then a
\* frame is read, which may fail: both "return None, {}".  With a frame, every
\* detection_frame_skip-th call detects, deduplicates, updates the tracker and counts;
\* the others return the last counts.
GetFrameOn(frames, maxHits, maxIssued) ==
    /\ \E opened \in (IF cap_opened THEN {TRUE} ELSE BOOLEAN), read \in BOOLEAN :
         /\ cap_opened' = opened
         /\ IF ~opened \/ ~read
            THEN /\ ret' = NoFrameCall
                 /\ UNCHANGED <<objects, next_object_id, issued, frame_skip_counter,
                                last_detection_counts>>
            ELSE /\ frame_skip_counter' = (frame_skip_counter + 1) % detection_frame_skip
                 /\ IF (frame_skip_counter + 1) % detection_frame_skip = 0
                    THEN \E raw \in frames : \E rects \in { Deduplicate(raw) } :
                         \E rows \in RowOrders(objects, rects) :
                         \E t \in { update(Tracker, rects, rows) } :
                              /\ \A i \in DOMAIN t.objects : t.objects[i].hits <= maxHits
                              /\ Len(t.issued) <= maxIssued
                              /\ objects' = t.objects
                              /\ next_object_id' = t.next_object_id
                              /\ issued' = t.issued
                              /\ last_detection_counts' = CrowdCounts(t.objects)
                              /\ ret' = FrameCall(TRUE, raw, rects, CrowdCounts(t.objects))
                    ELSE /\ ret' = FrameCall(FALSE, <<>>, <<>>, SkippedCounts)
                         /\ UNCHANGED <<objects, next_object_id, issued,
                                        last_detection_counts>>
    /\ UNCHANGED <<envVars, adVars, appVars, thrVars>>

GetFrame == GetFrameOn(CameraFrames, MaxCameraHits, MaxCameraIssued)

DedupFrame == GetFrameOn(DedupFrames, MaxVoteHits, MaxCameraIssued)

\* The rects of one frame of a scene that one person enters and leaves
DrainFrames == { <<>>, <<PersonFar>> }

\* One iteration of the processing loop on a frame the camera delivers: get_frame
\* (a detection frame updates the tracker and counts, a skipped one returns the last
\* counts), then the ad logic on the counts returned
PipelineFrames ==
    { <<PersonFar>>, <<PersonLeft, PersonFar>>, <<PersonLeft, PersonRight, PersonFar>> }

PipelineDecide(counts) ==
    LET result == should_show_ad(Majority(counts), counts)
    IN  IF counts.total > 0
        THEN /\ ret' = DecideCall(Majority(counts), counts, result)
             /\ IF result.show /\ result.kind = "gender"
                THEN decision' = result /\ pc' = "select"
                ELSE UNCHANGED <<decision, pc>>
        ELSE /\ ret' = NoCall
             /\ UNCHANGED <<decision, pc>>

PipelineFrame ==
    /\ pc = "frame"
    /\ frame_skip_counter' = (frame_skip_counter + 1) % detection_frame_skip
    /\ IF (frame_skip_counter + 1) % detection_frame_skip = 0
       THEN \E raw \in PipelineFrames : \E rects \in { Deduplicate(raw) } :
            \E rows \in RowOrders(objects, rects) :
            \E t \in { update(Tracker, rects, rows) } :
                 /\ \A i \in DOMAIN t.objects : t.objects[i].hits <= MaxCameraHits
                 /\ Len(t.issued) <= MaxCameraIssued
                 /\ objects' = t.objects
                 /\ next_object_id' = t.next_object_id
                 /\ issued' = t.issued
                 /\ last_detection_counts' = CrowdCounts(t.objects)
                 /\ PipelineDecide(CrowdCounts(t.objects))
       ELSE /\ PipelineDecide(SkippedCounts)
            /\ UNCHANGED <<objects, next_object_id, issued, last_detection_counts>>
    /\ UNCHANGED <<cap_opened, envVars, adVars, thrVars>>

\* Nobody in the frame, or one person at the left
ConfirmFrames == { <<>>, <<PersonLeft>> }

ConfirmFrame == GetFrameOn(ConfirmFrames, MaxCameraHits, MaxIssued)

\* VideoCamera.reinitialize: release(), self.tracker = EuclideanDistTracker(...),
\* return self.open(), which may fail
Reinitialize ==
    /\ objects' = <<>>
    /\ next_object_id' = 0
    /\ frame_skip_counter' = 0
    /\ last_detection_counts' = Counts(0, 0)
    /\ cap_opened' \in BOOLEAN
    /\ ret' = NoCall
    /\ UNCHANGED <<issued, envVars, adVars, appVars, thrVars>>

---------------------------------------------------------------------------
\* The threads of the process: the processing worker (src/app.py, background_thread)
\* step by step, and the request workers serving the routes.  A "with lock:" is an
\* acquire step, enabled when the lock is free, and a step that runs the body and
\* releases the lock; an exception raised in the body releases the lock on its way to
\* the worker's handler.

\* The frames the camera delivers while the threads run: one person
ThreadFrames == { <<PersonLeft>> }

\* "if not camera_instance.is_opened(): sleep; continue", else get_frame is called
WorkerLoop ==
    /\ pc = "frame"
    /\ cap_opened
    /\ pc' = "capture"
    /\ ret' = NoCall
    /\ UNCHANGED <<envVars, adVars, decision, trkVars, thrVars>>

\* get_frame up to should_detect: the camera is opened if a request has released it
\* meanwhile, and a frame is read.  No frame: the iteration goes to its sleep.  A
\* release between is_opened() and self.cap.read() makes the read raise.
WorkerCapture ==
    /\ pc = "capture"
    /\ \E opened \in (IF cap_opened THEN {TRUE} ELSE BOOLEAN), read \in BOOLEAN,
          raised \in BOOLEAN :
         /\ cap_opened' = opened
         /\ IF raised
            THEN /\ pc' = "backoff"
                 /\ ret' = RaiseCall("capture")
                 /\ UNCHANGED <<frame_skip_counter, w_counts>>
            ELSE IF ~opened \/ ~read
            THEN /\ pc' = "sleep"
                 /\ ret' = NoCall
                 /\ UNCHANGED <<frame_skip_counter, w_counts>>
            ELSE /\ frame_skip_counter' = (frame_skip_counter + 1) % detection_frame_skip
                 /\ ret' = NoCall
                 /\ IF (frame_skip_counter + 1) % detection_frame_skip = 0
                    THEN pc' = "detect" /\ UNCHANGED w_counts
                    ELSE pc' = "publish" /\ w_counts' = last_detection_counts
    /\ UNCHANGED <<envVars, adVars, decision, objects, next_object_id, issued,
                   last_detection_counts, person_net, global_lock, ad_lock, model_lock,
                   req, current_counts>>

\* "with model_lock:" of the person detection
WorkerAcquireModel ==
    /\ pc = "detect"
    /\ model_lock = Free
    /\ model_lock' = Worker
    /\ pc' = "detecting"
    /\ ret' = NoCall
    /\ UNCHANGED <<envVars, adVars, decision, trkVars, person_net, global_lock, ad_lock,
                   req, w_counts, current_counts>>

\* person_net.setInput(blob); person_net.forward(): raises when person_net is None,
\* and may raise otherwise
WorkerDetect ==
    /\ pc = "detecting"
    /\ model_lock' = Free
    /\ \E raised \in (IF person_net THEN BOOLEAN ELSE {TRUE}) :
         /\ pc' = IF raised THEN "backoff" ELSE "track"
         /\ ret' = IF raised THEN RaiseCall("detect") ELSE NoCall
    /\ UNCHANGED <<envVars, adVars, decision, trkVars, person_net, global_lock, ad_lock,
                   req, w_counts, current_counts>>

\* The rects of the frame, deduplicated, and "objects = self.tracker.update(rects)"
\* with the counts of the tracks it returns; or an exception
WorkerTrack ==
    /\ pc = "track"
    /\ \/ /\ \E raw \in ThreadFrames : \E rects \in { Deduplicate(raw) } :
               \E rows \in RowOrders(objects, rects) :
               \E t \in { update(Tracker, rects, rows) } :
                  /\ \A i \in DOMAIN t.objects : t.objects[i].hits <= MaxThreadHits
                  /\ Len(t.issued) <= MaxThreadIssued
                  /\ objects' = t.objects
                  /\ next_object_id' = t.next_object_id
                  /\ issued' = t.issued
                  /\ w_counts' = CrowdCounts(t.objects)
          /\ pc' = "count"
          /\ ret' = NoCall
       \/ /\ pc' = "backoff"
          /\ ret' = RaiseCall("track")
          /\ UNCHANGED <<objects, next_object_id, issued, w_counts>>
    /\ UNCHANGED <<envVars, adVars, decision, camVars, person_net, global_lock, ad_lock,
                   model_lock, req, current_counts>>

\* "self.last_detection_counts = counts", and get_frame returns
WorkerCount ==
    /\ pc = "count"
    /\ last_detection_counts' = w_counts
    /\ pc' = "publish"
    /\ ret' = NoCall
    /\ UNCHANGED <<envVars, adVars, decision, objects, next_object_id, issued,
                   frame_skip_counter, cap_opened, thrVars>>

\* "with global_lock:" of "Update global state"
WorkerAcquireGlobal ==
    /\ pc = "publish"
    /\ global_lock = Free
    /\ global_lock' = Worker
    /\ pc' = "publishing"
    /\ ret' = NoCall
    /\ UNCHANGED <<envVars, adVars, decision, trkVars, person_net, ad_lock, model_lock,
                   req, w_counts, current_counts>>

\* "current_counts = counts" and the analytics, then the lock is released
WorkerPublish ==
    /\ pc = "publishing"
    /\ current_counts' = w_counts
    /\ global_lock' = Free
    /\ pc' = "decide"
    /\ ret' = NoCall
    /\ UNCHANGED <<envVars, adVars, decision, trkVars, person_net, ad_lock, model_lock,
                   req, w_counts>>

\* "if total > 0:" the worker calls should_show_ad, which takes ad_lock
WorkerAcquireAd ==
    /\ pc = "decide"
    /\ IF w_counts.total > 0
       THEN /\ ad_lock = Free
            /\ ad_lock' = Worker
            /\ pc' = "deciding"
       ELSE /\ pc' = "sleep"
            /\ UNCHANGED ad_lock
    /\ ret' = NoCall
    /\ UNCHANGED <<envVars, adVars, decision, trkVars, person_net, global_lock,
                   model_lock, req, w_counts, current_counts>>

\* should_show_ad returns, or raises
WorkerDecide ==
    /\ pc = "deciding"
    /\ ad_lock' = Free
    /\ LET result == should_show_ad(Majority(w_counts), w_counts)
       IN  \/ /\ ret' = DecideCall(Majority(w_counts), w_counts, result)
              /\ IF result.show /\ result.kind = "gender"
                 THEN decision' = result /\ pc' = "select"
                 ELSE decision' = NoDecision /\ pc' = "sleep"
           \/ /\ ret' = RaiseCall("decide")
              /\ decision' = NoDecision
              /\ pc' = "backoff"
    /\ UNCHANGED <<envVars, adVars, trkVars, person_net, global_lock, model_lock, req,
                   w_counts, current_counts>>

\* "with self.ad_lock:" of select_ad
WorkerAcquireAdSelect ==
    /\ pc = "select"
    /\ ad_lock = Free
    /\ ad_lock' = Worker
    /\ pc' = "selecting"
    /\ ret' = NoCall
    /\ UNCHANGED <<envVars, adVars, decision, trkVars, person_net, global_lock,
                   model_lock, req, w_counts, current_counts>>

\* select_ad(target) returns an ad, or raises
WorkerSelect ==
    /\ pc = "selecting"
    /\ SelectAd(decision.target)
    /\ ad_lock' = Free
    /\ decision' = NoDecision
    /\ pc' = IF ret'.raised THEN "backoff" ELSE "stats"
    /\ UNCHANGED <<person_net, global_lock, model_lock, req, w_counts, current_counts>>

\* "with global_lock:" of "Update analytics immediately"
WorkerAcquireGlobalStats ==
    /\ pc = "stats"
    /\ global_lock = Free
    /\ global_lock' = Worker
    /\ pc' = "stats_global"
    /\ ret' = NoCall
    /\ UNCHANGED <<envVars, adVars, decision, trkVars, person_net, ad_lock, model_lock,
                   req, w_counts, current_counts>>

\* get_stats, called with global_lock held, takes ad_lock
WorkerAcquireAdStats ==
    /\ pc = "stats_global"
    /\ ad_lock = Free
    /\ ad_lock' = Worker
    /\ pc' = "stats_ad"
    /\ ret' = NoCall
    /\ UNCHANGED <<envVars, adVars, decision, trkVars, person_net, global_lock,
                   model_lock, req, w_counts, current_counts>>

\* get_stats returns and the with block ends: both locks are released
WorkerStats ==
    /\ pc = "stats_ad"
    /\ ad_lock' = Free
    /\ global_lock' = Free
    /\ pc' = "sleep"
    /\ ret' = NoCall
    /\ UNCHANGED <<envVars, adVars, decision, trkVars, person_net, model_lock, req,
                   w_counts, current_counts>>

\* "time.sleep(0.01)", the end of an iteration
WorkerSleep ==
    /\ pc = "sleep"
    /\ pc' = "frame"
    /\ ret' = NoCall
    /\ UNCHANGED <<envVars, adVars, decision, trkVars, thrVars>>

\* get_frame as the worker calls it with the camera opened, in one step, on the frames
\* of DrainFrames: no frame read returns None, {}; a frame read is a detection frame
\* (deduplicate, update the tracker, count) or a skipped one.  What follows in the
\* iteration (publication, ad logic, sleep) leaves the camera and its tracker alone,
\* and the worker is at the head of its loop again.
DrainCapture ==
    /\ pc = "capture"
    /\ pc' = "frame"
    /\ \E read \in BOOLEAN :
         IF ~read
         THEN /\ ret' = NoFrameCall
              /\ UNCHANGED <<objects, next_object_id, issued, frame_skip_counter,
                             last_detection_counts>>
         ELSE /\ frame_skip_counter' = (frame_skip_counter + 1) % detection_frame_skip
              /\ IF (frame_skip_counter + 1) % detection_frame_skip = 0
                 THEN \E raw \in DrainFrames : \E rects \in { Deduplicate(raw) } :
                      \E rows \in RowOrders(objects, rects) :
                      \E t \in { update(Tracker, rects, rows) } :
                           /\ \A i \in DOMAIN t.objects : t.objects[i].hits <= MaxHits
                           /\ Len(t.issued) <= MaxIssued
                           /\ objects' = t.objects
                           /\ next_object_id' = t.next_object_id
                           /\ issued' = t.issued
                           /\ last_detection_counts' = CrowdCounts(t.objects)
                           /\ ret' = FrameCall(TRUE, raw, rects, CrowdCounts(t.objects))
                 ELSE /\ ret' = FrameCall(FALSE, <<>>, <<>>, SkippedCounts)
                      /\ UNCHANGED <<objects, next_object_id, issued,
                                     last_detection_counts>>
    /\ UNCHANGED <<cap_opened, envVars, adVars, decision, thrVars>>

\* WorkerBackoff gone wrong: the handler ends the loop
WorkerBackoffExit ==
    /\ pc = "backoff"
    /\ pc' = "exited"
    /\ ret' = NoCall
    /\ UNCHANGED <<envVars, adVars, decision, trkVars, thrVars>>

\* "except Exception as e: print(...); time.sleep(1.0)"
WorkerBackoff ==
    /\ pc = "backoff"
    /\ pc' = "frame"
    /\ ret' = NoCall
    /\ UNCHANGED <<envVars, adVars, decision, trkVars, thrVars>>

WorkerStep ==
    \/ WorkerLoop
    \/ WorkerCapture
    \/ WorkerAcquireModel
    \/ WorkerDetect
    \/ WorkerTrack
    \/ WorkerCount
    \/ WorkerAcquireGlobal
    \/ WorkerPublish
    \/ WorkerAcquireAd
    \/ WorkerDecide
    \/ WorkerAcquireAdSelect
    \/ WorkerSelect
    \/ WorkerAcquireGlobalStats
    \/ WorkerAcquireAdStats
    \/ WorkerStats
    \/ WorkerSleep
    \/ WorkerBackoff

\* The dashboard route: "if not camera_instance.is_opened(): reinitialize()"
DashboardRoute ==
    /\ ~cap_opened
    /\ Reinitialize

\* The logout route (and the login page): "if is_opened(): release()"
LogoutRoute ==
    /\ cap_opened
    /\ cap_opened' = FALSE
    /\ ret' = NoCall
    /\ UNCHANGED <<envVars, adVars, appVars, objects, next_object_id, issued,
                   frame_skip_counter, last_detection_counts, thrVars>>

\* A request for the analytics route, the /ad/current route or the people_count
\* route (video_feed and request_counts take the same lock the same way) arrives at a
\* request worker
Routes == {"analytics", "current_ad", "people_count"}

RouteArrives(r) ==
    /\ req[r] = "idle"
    /\ \E route \in Routes : req' = [req EXCEPT ![r] = route]
    /\ ret' = NoCall
    /\ UNCHANGED <<envVars, adVars, appVars, trkVars, person_net, global_lock, ad_lock,
                   model_lock, w_counts, current_counts>>

\* AnalyticsAcquireGlobal gone wrong: ad_lock taken before global_lock
AnalyticsAcquireAdFirst(r) ==
    /\ req[r] = "analytics"
    /\ ad_lock = Free
    /\ ad_lock' = r
    /\ req' = [req EXCEPT ![r] = "analytics_global"]
    /\ ret' = NoCall
    /\ UNCHANGED <<envVars, adVars, appVars, trkVars, person_net, global_lock,
                   model_lock, w_counts, current_counts>>

\* The analytics route: "with global_lock:" ...
AnalyticsAcquireGlobal(r) ==
    /\ req[r] = "analytics"
    /\ global_lock = Free
    /\ global_lock' = r
    /\ req' = [req EXCEPT ![r] = "analytics_global"]
    /\ ret' = NoCall
    /\ UNCHANGED <<envVars, adVars, appVars, trkVars, person_net, ad_lock, model_lock,
                   w_counts, current_counts>>

\* ... get_stats takes ad_lock ...
AnalyticsAcquireAd(r) ==
    /\ req[r] = "analytics_global"
    /\ ad_lock = Free
    /\ ad_lock' = r
    /\ req' = [req EXCEPT ![r] = "analytics_ad"]
    /\ ret' = NoCall
    /\ UNCHANGED <<envVars, adVars, appVars, trkVars, person_net, global_lock,
                   model_lock, w_counts, current_counts>>

\* ... and returns; get_ad_history takes no lock; the with block ends
AnalyticsReturn(r) ==
    /\ req[r] = "analytics_ad"
    /\ ad_lock' = Free
    /\ global_lock' = Free
    /\ req' = [req EXCEPT ![r] = "idle"]
    /\ ret' = NoCall
    /\ UNCHANGED <<envVars, adVars, appVars, trkVars, person_net, model_lock, w_counts,
                   current_counts>>

\* The /ad/current route: get_current_ad takes ad_lock ...
CurrentAdAcquire(r) ==
    /\ req[r] = "current_ad"
    /\ ad_lock = Free
    /\ ad_lock' = r
    /\ req' = [req EXCEPT ![r] = "current_ad_ad"]
    /\ ret' = NoCall
    /\ UNCHANGED <<envVars, adVars, appVars, trkVars, person_net, global_lock,
                   model_lock, w_counts, current_counts>>

\* ... and returns
CurrentAdReturn(r) ==
    /\ req[r] = "current_ad_ad"
    /\ GetCurrentAd
    /\ ad_lock' = Free
    /\ req' = [req EXCEPT ![r] = "idle"]
    /\ UNCHANGED <<person_net, global_lock, model_lock, w_counts, current_counts>>

\* The people_count route: "with global_lock:" ...
PeopleCountAcquire(r) ==
    /\ req[r] = "people_count"
    /\ global_lock = Free
    /\ global_lock' = r
    /\ req' = [req EXCEPT ![r] = "people_count_global"]
    /\ ret' = NoCall
    /\ UNCHANGED <<envVars, adVars, appVars, trkVars, person_net, ad_lock, model_lock,
                   w_counts, current_counts>>

\* ... and returns current_counts
PeopleCountReturn(r) ==
    /\ req[r] = "people_count_global"
    /\ global_lock' = Free
    /\ req' = [req EXCEPT ![r] = "idle"]
    /\ ret' = PeopleCountCall(current_counts)
    /\ UNCHANGED <<envVars, adVars, appVars, trkVars, person_net, ad_lock, model_lock,
                   w_counts, current_counts>>

RequestStep(r) ==
    \/ RouteArrives(r)
    \/ AnalyticsAcquireGlobal(r)
    \/ AnalyticsAcquireAd(r)
    \/ AnalyticsReturn(r)
    \/ CurrentAdAcquire(r)
    \/ CurrentAdReturn(r)
    \/ PeopleCountAcquire(r)
    \/ PeopleCountReturn(r)

\* The ad manager's operations called while other threads run.  A thread is about to
\* call select_ad(target) ...
SelectArrives ==
    /\ pc = "frame"
    /\ Len(ad_history) < MaxLockSelects
    /\ \E target \in {"male", "female"} :
         decision' = [NoDecision EXCEPT !.show = TRUE, !.kind = "start",
                                        !.target = target]
    /\ pc' = "select"
    /\ ret' = NoCall
    /\ UNCHANGED <<envVars, adVars, trkVars, thrVars>>

\* ... inside "with self.ad_lock:" it picks the ad, sets current_ad, ad_start_time,
\* last_ad_change_time[gender], last_majority_gender and counts the display ...
SelectAdUpdate ==
    /\ pc = "selecting"
    /\ LET gender == decision.target
           list == ads_list(gender)
       IN  IF list = <<>>
           THEN /\ ret' = SelectRaised(gender)
                /\ ad_lock' = Free
                /\ decision' = NoDecision
                /\ pc' = "frame"
                /\ UNCHANGED <<adVars, mongo_counts>>
           ELSE \E i \in DOMAIN list :
                  LET ad == [id |-> list[i], gender |-> gender]
                  IN  /\ current_ad' = ad
                      /\ ad_start_time' = now
                      /\ last_ad_change_time' = [last_ad_change_time EXCEPT ![gender] = now]
                      /\ last_majority_gender' = gender
                      /\ TrackAdDisplay(ad)
                      /\ ret' = NoCall
                      /\ pc' = "appending"
                      /\ UNCHANGED <<ad_history, mongo_db, male_ads, female_ads,
                                     neutral_ads, ad_lock, decision>>
    /\ UNCHANGED <<now, storeUp, trkVars, person_net, global_lock, model_lock, req,
                   w_counts, current_counts>>

\* ... then appends to ad_history, drops the oldest entry over 100, and returns
SelectAdAppend ==
    /\ pc = "appending"
    /\ ad_history' = AppendHistory(ad_history, current_ad)
    /\ ret' = SelectCall(decision.target, current_ad)
    /\ ad_lock' = Free
    /\ decision' = NoDecision
    /\ pc' = "frame"
    /\ UNCHANGED <<envVars, current_ad, ad_start_time, last_majority_gender,
                   last_ad_change_time, mongo_db, local_analytics, male_ads, female_ads,
                   neutral_ads, trkVars, person_net, global_lock, model_lock, req,
                   w_counts, current_counts>>

\* get_stats: "'current_ad': self.current_ad"
StatsCurrentAd == current_ad

\* get_stats, called by the loop after a selection and by the analytics route
GetStats ==
    /\ LET shown(g) == Cardinality({ i \in DOMAIN ad_history : ad_history[i].gender = g })
       IN ret' = StatsCall(Len(ad_history), shown("male"), shown("female"),
                           StatsCurrentAd)
    /\ UNCHANGED <<envVars, adVars, appVars, trkVars, thrVars>>

\* self.ad_history[-limit:]
HistorySlice(h, limit) ==
    IF limit = 0 \/ Len(h) <= limit THEN h
    ELSE SubSeq(h, Len(h) - limit + 1, Len(h))

\* get_ad_history(limit), called by the analytics route with 10 and by default with 20:
\* no lock is taken
GetAdHistory ==
    /\ \E limit \in {10, 20} : ret' = HistoryCall(HistorySlice(ad_history, limit))
    /\ UNCHANGED <<envVars, adVars, appVars, trkVars, thrVars>>

---------------------------------------------------------------------------
\* The state after construction

\* VideoCamera() and its tracker
TrackerInit ==
    /\ objects = <<>>
    /\ next_object_id = 0
    /\ issued = <<>>
    /\ frame_skip_counter = 0
    /\ last_detection_counts = Counts(0, 0)
    /\ cap_opened = FALSE

\* The module-level state of src/app.py and src/camera.py after import: the person
\* model loaded or not as drawn from models, every lock free, no request being served
AppInit(models) ==
    /\ person_net \in models
    /\ global_lock = Free
    /\ ad_lock = Free
    /\ model_lock = Free
    /\ req = [r \in Requests |-> "idle"]
    /\ w_counts = Counts(0, 0)
    /\ current_counts = Counts(0, 0)

\* AdManager(mongo_db) after __init__, with the store's availability drawn from stores,
\* the store handle from handles and each bucket's loaded inventory from the given set
AdInit(stores, handles, maleInv, femaleInv, neutralInv) ==
    /\ now = StartTime
    /\ storeUp \in stores
    /\ mongo_counts = NoCounts
    /\ current_ad = NoAd
    /\ ad_start_time = NoTime
    /\ last_majority_gender = "None"
    /\ last_ad_change_time = [g \in Genders |-> NoTime]
    /\ ad_history = <<>>
       \* the handle is dropped when the first find_one() raises
    /\ \E handle \in handles : mongo_db = (handle /\ storeUp)
    /\ local_analytics = NoCounts
    /\ \E l \in maleInv : male_ads = CatalogOrDemo(l, demo_male_ads)
    /\ \E l \in femaleInv : female_ads = CatalogOrDemo(l, demo_female_ads)
    /\ \E l \in neutralInv : neutral_ads = CatalogOrDemo(l, demo_neutral_ads)
    /\ ret = NoCall
    /\ decision = NoDecision
    /\ pc = "frame"

\* The application: the processing worker, the /ad/current route and the clock.
\* One local file per gendered bucket, the neutral bucket on the demo catalog; the
\* store, when there is a handle, stays up.
Init ==
    /\ AdInit({TRUE}, BOOLEAN, {<<"MALE_A_JPG">>}, {<<"FEMALE_A_JPG">>}, {<<>>})
    /\ TrackerInit
    /\ AppInit({TRUE})

Next ==
    \/ BackgroundFrame
    \/ BackgroundSelect
    \/ CurrentAdRoute
    \/ Tick

Spec == Init /\ [][Next]_vars

\* The trigger state machine under direct calls, in any order and with any argument;
\* no store handle, every display goes to the mirror
DecideInit ==
    /\ AdInit({FALSE}, {FALSE}, {<<"MALE_A_JPG">>}, {<<"FEMALE_A_JPG">>}, {<<>>})
    /\ TrackerInit
    /\ AppInit({TRUE})

DecideNext ==
    \/ ApiShouldShowAd(Buckets)
    \/ ApiSelectAd({"male", "female"}, MaxDecideSelects)
    \/ ApiGetCurrentAd
    \/ ApiClearAd
    \/ Tick

SpecDecide == DecideInit /\ [][DecideNext]_vars

\* The ad history under more select_ad calls than it holds entries
HistoryNext ==
    \/ HistorySelect

SpecHistory == DecideInit /\ [][HistoryNext]_vars

\* The selector under direct calls with any gender, over every inventory, with and
\* without a store handle, the store failing and recovering
SelectInit ==
    /\ AdInit(BOOLEAN, BOOLEAN, LocalInventories("MALE"), LocalInventories("FEMALE"),
              LocalInventories("NEUTRAL"))
    /\ TrackerInit
    /\ AppInit({TRUE})

SelectNext ==
    \/ ApiSelectAd(Genders, MaxCatalogSelects)
    \/ StoreFail
    \/ StoreRecover

SpecSelect == SelectInit /\ [][SelectNext]_vars

\* The analytics recorder under direct calls: one local file per bucket, with and
\* without a store handle, the store failing and recovering
StoreInit ==
    /\ AdInit(BOOLEAN, BOOLEAN, {<<"MALE_A_JPG">>}, {<<"FEMALE_A_JPG">>},
              {<<"NEUTRAL_A_JPG">>})
    /\ TrackerInit
    /\ AppInit({TRUE})

StoreNext ==
    \/ ApiSelectAd(Genders, MaxSelects)
    \/ GetAdAnalytics
    \/ StoreFail
    \/ StoreRecover

SpecStore == StoreInit /\ [][StoreNext]_vars

\* The tracker under update calls with any frame, and the camera's reinitialize
TrackerSpecInit ==
    /\ AdInit({FALSE}, {FALSE}, {<<"MALE_A_JPG">>}, {<<"FEMALE_A_JPG">>}, {<<>>})
    /\ TrackerInit
    /\ AppInit({TRUE})

TrackerNext ==
    \/ TrackerUpdate
    \/ Reinitialize

SpecTracker == TrackerSpecInit /\ [][TrackerNext]_vars

\* The matching of two tracks under update calls with two observations
MatchNext ==
    \/ MatchUpdate

SpecMatch == TrackerSpecInit /\ [][MatchNext]_vars

\* The label vote of one track under update calls
VoteNext ==
    \/ VoteUpdate

SpecVote == TrackerSpecInit /\ [][VoteNext]_vars

\* The camera under get_frame calls on frames of two raw boxes
DedupNext ==
    \/ DedupFrame
    \/ Reinitialize

SpecDedup == TrackerSpecInit /\ [][DedupNext]_vars

\* The camera under get_frame calls and reinitialize
CameraNext ==
    \/ GetFrame
    \/ Reinitialize

SpecCamera == TrackerSpecInit /\ [][CameraNext]_vars

\* The camera under a processing loop that keeps running: the dashboard turns the
\* camera on, and the worker, its thread scheduled, goes from the head of its loop to
\* get_frame and back (src/app.py, "while True"), whatever the capture delivers
DrainNext ==
    \/ DashboardRoute
    \/ WorkerLoop
    \/ DrainCapture

SpecDrain ==
    TrackerSpecInit /\ [][DrainNext]_vars /\ WF_vars(WorkerLoop) /\ WF_vars(DrainCapture)

\* The process: the processing worker step by step and two request workers, the
\* person model loaded or not
ThreadInit ==
    /\ AdInit({FALSE}, {FALSE}, {<<"MALE_A_JPG">>}, {<<"FEMALE_A_JPG">>}, {<<>>})
    /\ TrackerInit
    /\ AppInit(BOOLEAN)

\* The camera from the frame where its one track, registered from PersonLeft and
\* matched eight times since, has just missed an update
InterruptedTrack ==
    [register([objects |-> <<>>, next_object_id |-> 0, issued |-> <<>>],
              Centroid(PersonLeft.bbox), PersonLeft.bbox, PersonLeft.gender,
              PersonLeft.confidence).objects[1]
       EXCEPT !.gender_history = [k \in 1..(CONFIRM_HITS - 1) |-> PersonLeft.gender],
              !.hits = CONFIRM_HITS - 1,
              !.disappeared = 1]

ConfirmInit ==
    /\ AdInit({FALSE}, {FALSE}, {<<"MALE_A_JPG">>}, {<<"FEMALE_A_JPG">>}, {<<>>})
    /\ objects = <<InterruptedTrack>>
    /\ next_object_id = 1
    /\ issued = <<0>>
    /\ frame_skip_counter = 0
    /\ last_detection_counts = Counts(0, 0)
    /\ cap_opened = TRUE
    /\ AppInit({TRUE})

ConfirmNext ==
    \/ ConfirmFrame

SpecConfirm == ConfirmInit /\ [][ConfirmNext]_vars

\* The processing loop from the camera's frames to the selection of an ad
PipelineNext ==
    \/ PipelineFrame
    \/ BackgroundSelect

SpecPipeline == Init /\ [][PipelineNext]_vars

\* The ad manager under calls of all its operations in any order, and the clock
StatsNext ==
    \/ ApiShouldShowAd({"male", "female"})
    \/ ApiSelectAd({"male", "female"}, MaxStatsSelects)
    \/ ApiGetCurrentAd
    \/ ApiClearAd
    \/ GetStats
    \/ GetAdHistory
    \/ GetAdAnalytics
    \/ Tick

SpecStats == DecideInit /\ [][StatsNext]_vars

\* The detection loop of get_frame on the detections of one frame
CascadeNext ==
    \/ DetectFrame

SpecCascade == TrackerSpecInit /\ [][CascadeNext]_vars

\* The ad manager with one thread in select_ad and others in its reading operations
AdLockNext ==
    \/ SelectArrives
    \/ WorkerAcquireAdSelect
    \/ SelectAdUpdate
    \/ SelectAdAppend
    \/ GetAdHistory
    \/ GetAdAnalytics
    \/ \E r \in Requests : RequestStep(r)

SpecAdLock == ThreadInit /\ [][AdLockNext]_vars

ThreadNext ==
    \/ WorkerStep
    \/ DashboardRoute
    \/ LogoutRoute
    \/ \E r \in Requests : RequestStep(r)

SpecThreads == ThreadInit /\ [][ThreadNext]_vars

\* The same with the worker's thread scheduled: it returns from the sleep of its
\* handler and goes on from the head of its loop
SpecThreadsFair == SpecThreads /\ WF_vars(WorkerBackoff) /\ WF_vars(WorkerLoop)

---------------------------------------------------------------------------
\* The claims about the trigger state machine

\* C1: in the processing loop, two successive select_ad triggers of the same gender
\* bucket are never less than AD_TRIGGER_DELAY seconds apart: a select_ad(g) step
\* finds g never triggered, or triggered at least AD_TRIGGER_DELAY seconds ago.
C1_CooldownBetweenTriggers ==
    [][ ret'.op = "select_ad"
        => \/ last_ad_change_time[ret'.gender] = NoTime
           \/ now - last_ad_change_time[ret'.gender] >= AD_TRIGGER_DELAY ]_vars

\* C2: in the processing loop, a select_ad step that replaces an ad still set finds
\* that ad at least AD_DISPLAY_DURATION seconds old, or is for a gender other than
\* last_majority_gender.
C2_MinimumDisplay ==
    [][ (ret'.op = "select_ad" /\ current_ad # NoAd /\ Truthy(ad_start_time))
        => \/ now - ad_start_time >= AD_DISPLAY_DURATION
           \/ ret'.gender # last_majority_gender ]_vars

\* should_show_ad has just granted the same gender a new ad, the current one having
\* been shown for its full duration
C2_Witness ==
    /\ pc = "select"
    /\ current_ad # NoAd
    /\ decision.target = last_majority_gender
    /\ now - ad_start_time >= AD_DISPLAY_DURATION

Idle == current_ad = NoAd /\ \A g \in Genders : last_ad_change_time[g] = NoTime

Showing == current_ad # NoAd /\ now - ad_start_time < AD_DISPLAY_DURATION

\* C5: should_show_ad with total > 0 returns (True, gender) from Idle with no trigger
\* history; while an ad is showing with elapsed < AD_DISPLAY_DURATION it returns
\* (False, current_ad) for last_majority_gender and (True, gender) for any other.
C5_PreemptiveSwitch ==
    (ret.op = "should_show_ad" /\ ret.total > 0)
    => /\ Idle => (ret.show /\ ret.kind = "gender" /\ ret.target = ret.gender)
       /\ (Showing /\ ret.gender = last_majority_gender)
            => (~ret.show /\ ret.kind = "ad" /\ ret.ad = current_ad)
       /\ (Showing /\ ret.gender # last_majority_gender)
            => (ret.show /\ ret.kind = "gender" /\ ret.target = ret.gender)

\* the switch: an ad is showing and the other gender is granted at once
C5_Witness ==
    /\ ret.op = "should_show_ad"
    /\ Showing
    /\ now - ad_start_time < AD_TRIGGER_DELAY
    /\ ret.gender # last_majority_gender
    /\ ret.show

InCooldown(g) ==
    /\ last_ad_change_time[g] # NoTime
    /\ now - last_ad_change_time[g] < AD_TRIGGER_DELAY

\* C6: with no ad showing (none set, or the one set at or past AD_DISPLAY_DURATION) and
\* total > 0, should_show_ad(g) returns (False, None) when g was triggered less than
\* AD_TRIGGER_DELAY seconds ago and (True, g) otherwise.
C6_CooldownNotShowing ==
    (ret.op = "should_show_ad" /\ ret.total > 0 /\ ~Showing)
    => IF InCooldown(ret.gender)
       THEN ~ret.show /\ ret.kind = "none"
       ELSE ret.show /\ ret.kind = "gender" /\ ret.target = ret.gender

\* the ad was cleared and its gender asks again inside the cooldown window
C6_Witness ==
    /\ ret.op = "should_show_ad"
    /\ ret.total > 0
    /\ current_ad = NoAd
    /\ InCooldown(ret.gender)
    /\ ~ret.show

---------------------------------------------------------------------------
\* The claims about the selector and the analytics recorder

\* C7: select_ad never raises and returns a record with a non-empty id of the catalog,
\* for every gender argument, inventory and state of the store.
C7_SelectAlwaysReturns ==
    ret.op = "select_ad"
    => /\ ~ret.raised
       /\ ret.ad # NoAd
       /\ ret.ad.id # ""
       /\ ret.ad.id \in AdIds
       /\ ret.ad.gender = ret.gender

\* a gender outside the three buckets, no local neutral file, the store failing
C7_Witness ==
    /\ ret.op = "select_ad"
    /\ ret.gender = "other"
    /\ neutral_ads = demo_neutral_ads
    /\ mongo_db /\ ~storeUp
    /\ ret.ad.id \in Range(demo_neutral_ads)

\* the display events recorded for an asset: the select_ad calls that returned it
Displays(id) == Cardinality({ i \in DOMAIN ad_history : ad_history[i].id = id })

\* C8: a report read from the recovered store never lists an asset with a
\* display_count below the number of display events recorded for it.
C8_NoUndercount ==
    (ret.op = "get_ad_analytics" /\ ret.read = "store")
    => \A id \in AdIds : ret.count[id] >= Displays(id)

C10_OneDisplayEvent ==
    [][ (ret'.op = "select_ad" /\ ~ret'.raised)
        => LET id == ret'.ad.id
           IN  /\ (mongo_db /\ storeUp)
                    => /\ mongo_counts'[id] = mongo_counts[id] + 1
                       /\ local_analytics'[id] = local_analytics[id]
               /\ ~(mongo_db /\ storeUp)
                    => /\ local_analytics'[id] = local_analytics[id] + 1
                       /\ mongo_counts'[id] = mongo_counts[id]
               /\ \A other \in AdIds \ {id} :
                    /\ mongo_counts'[other] = mongo_counts[other]
                    /\ local_analytics'[other] = local_analytics[other] ]_vars

\* the store has failed after counting an asset, and the mirror entry was created at 1
C10_Witness ==
    /\ ret.op = "select_ad"
    /\ mongo_db /\ ~storeUp
    /\ local_analytics[ret.ad.id] = 1
    /\ mongo_counts[ret.ad.id] >= 1

\* C17: get_current_ad returns the current ad exactly when one is set and
\* now - ad_start_time < AD_DISPLAY_DURATION; otherwise it returns none, and at or
\* after AD_DISPLAY_DURATION it has cleared current_ad and ad_start_time.
C17_GetCurrentAd ==
    [][ ret'.op = "get_current_ad"
        => IF current_ad # NoAd /\ now - ad_start_time < AD_DISPLAY_DURATION
           THEN ret'.ad = current_ad /\ UNCHANGED <<current_ad, ad_start_time>>
           ELSE ret'.ad = NoAd /\ current_ad' = NoAd /\ ad_start_time' = NoTime ]_vars

\* get_current_ad has returned none for the ad the worker selected, exactly
\* AD_DISPLAY_DURATION after its start
C17_Witness ==
    /\ ret.op = "get_current_ad"
    /\ ret.ad = NoAd
    /\ ad_history # <<>>
    /\ now - last_ad_change_time[ad_history[Len(ad_history)].gender] = AD_DISPLAY_DURATION

\* C18: after select_ad(g) returns, current_ad has gender g, ad_start_time = now,
\* last_ad_change_time[g] = now, last_majority_gender = g, and the last_ad_change_time
\* of every other gender is what it was.
C18_SelectAdEffect ==
    [][ (ret'.op = "select_ad" /\ ~ret'.raised)
        => /\ current_ad' # NoAd
           /\ current_ad'.gender = ret'.gender
           /\ ad_start_time' = now
           /\ last_ad_change_time' = [last_ad_change_time EXCEPT ![ret'.gender] = now]
           /\ last_majority_gender' = ret'.gender ]_vars

\* select_ad("male") has returned while the female trigger time is an earlier one
C18_Witness ==
    /\ ret.op = "select_ad"
    /\ ~ret.raised
    /\ ret.gender = "male"
    /\ last_ad_change_time["male"] = now
    /\ last_ad_change_time["female"] # NoTime
    /\ last_ad_change_time["female"] < now

\* the last n entries of a sequence
LastN(seq, n) == IF Len(seq) <= n THEN seq ELSE SubSeq(seq, Len(seq) - n + 1, Len(seq))

\* C30: should_show_ad called with counts of total 0 returns (False, None) whatever
\* ad is set and whenever it was started, and changes nothing of the ad manager's
\* state: an empty scene neither starts, switches nor ends an ad.
C30_EmptySceneNoDecision ==
    [][ (ret'.op = "should_show_ad" /\ ret'.total = 0)
        => /\ ~ret'.show
           /\ ret'.target = "None"
           /\ ret'.ad = NoAd
           /\ UNCHANGED adVars ]_vars

\* called with no one in the scene while an ad of the other bucket is within its
\* display time, where a call with people switches
C30_Witness ==
    /\ ret.op = "should_show_ad"
    /\ ret.total = 0
    /\ ~ret.show
    /\ current_ad # NoAd
    /\ ad_start_time # NoTime
    /\ now - ad_start_time < AD_DISPLAY_DURATION
    /\ ret.gender # last_majority_gender
    /\ should_show_ad(ret.gender, Counts(1, 1)).show

\* C32: the counts get_frame returns have total = male + female, so the majority the
\* processing loop hands to should_show_ad is male or female, and the loop neither
\* triggers nor selects a neutral ad.
C32_NeutralUnreachable ==
    /\ ret.op \in {"should_show_ad", "select_ad"} => ret.gender \in {"male", "female"}
    /\ decision.target \in {"None", "male", "female"}
    /\ current_ad # NoAd => current_ad.gender \in {"male", "female"}
    /\ \A i \in DOMAIN ad_history : ad_history[i].gender \in {"male", "female"}

\* the loop has decided on a frame with one confirmed man and one confirmed woman
C32_Witness ==
    /\ ret.op = "should_show_ad"
    /\ last_detection_counts = Counts(1, 1)
    /\ ret.total = 2
    /\ ret.gender = "male"

\* C33: should_show_ad changes nothing of the ad manager's state or of the store,
\* whatever it is called with and whatever it returns; a step that changes current_ad,
\* ad_start_time, the trigger times, the last majority, the history or the mirror is
\* a select_ad, get_current_ad or clear_ad call.
C33_DecideIsPure ==
    [][ /\ ret'.op = "should_show_ad" => UNCHANGED <<adVars, mongo_counts>>
        /\ adVars' # adVars => ret'.op \in {"select_ad", "get_current_ad", "clear_ad"}
      ]_vars

\* should_show_ad has returned (True, gender) for a switch and the ad, its start and
\* the last majority are what they were
C33_Witness ==
    /\ ret.op = "should_show_ad"
    /\ ret.show
    /\ ret.target = ret.gender
    /\ current_ad # NoAd
    /\ current_ad.gender # ret.gender
    /\ last_majority_gender = current_ad.gender
    /\ ad_start_time = last_ad_change_time[current_ad.gender]

\* C34: the current_ad get_stats reports is what get_current_ad returns at the same
\* instant: the ad that is set while its display duration has not elapsed, none after.
C34_StatsCurrentAdConsistent ==
    ret.op = "get_stats"
    => ret.ad = IF /\ current_ad # NoAd
                   /\ Truthy(ad_start_time)
                   /\ ~(now - ad_start_time < AD_DISPLAY_DURATION)
                THEN NoAd
                ELSE current_ad

\* C35: get_current_ad, also when it expires the ad, and clear_ad leave the trigger
\* times and the last majority as they are and change only current_ad and
\* ad_start_time, to none; so with no ad set a should_show_ad call for a bucket
\* triggered less than AD_TRIGGER_DELAY ago returns (False, None).
C35_ExpiryKeepsCooldown ==
    [][ /\ ret'.op \in {"get_current_ad", "clear_ad"}
           => /\ UNCHANGED <<last_ad_change_time, last_majority_gender, ad_history,
                             local_analytics, mongo_counts>>
              /\ \/ UNCHANGED <<current_ad, ad_start_time>>
                 \/ current_ad' = NoAd /\ ad_start_time' = NoTime
        /\ ( /\ ret'.op = "should_show_ad"
             /\ ret'.total > 0
             /\ current_ad = NoAd
             /\ last_ad_change_time[ret'.gender] # NoTime
             /\ now - last_ad_change_time[ret'.gender] < AD_TRIGGER_DELAY )
           => ~ret'.show /\ ret'.ad = NoAd
      ]_vars

\* the ad of a bucket was cleared and a call for that bucket within the delay of its
\* trigger is refused
C35_Witness ==
    /\ ret.op = "should_show_ad"
    /\ ret.total > 0
    /\ ~ret.show
    /\ current_ad = NoAd
    /\ ad_start_time = NoTime
    /\ last_majority_gender = ret.gender
    /\ last_ad_change_time[ret.gender] # NoTime
    /\ now - last_ad_change_time[ret.gender] < AD_TRIGGER_DELAY
    /\ Len(ad_history) = 1

\* C36: in the processing loop with the /ad/current route polled at any time, once
\* the last trigger was for gender g, a should_show_ad call for g on people in view
\* returns (True, g) whenever AD_DISPLAY_DURATION has passed since that trigger and
\* only then, whether the ad is still set or a poll has expired it; so a select_ad for
\* g that follows a trigger for g comes at least AD_DISPLAY_DURATION after it.
C36_SteadyRetrigger ==
    [][ /\ ( /\ ret'.op = "should_show_ad"
             /\ ret'.total > 0
             /\ ret'.gender = last_majority_gender )
           => /\ last_ad_change_time[ret'.gender] # NoTime
              /\ (ret'.show /\ ret'.target = ret'.gender)
                   <=> now - last_ad_change_time[ret'.gender] >= AD_DISPLAY_DURATION
              /\ ~ret'.show => ret'.ad = current_ad /\ current_ad # NoAd
        /\ ( /\ ret'.op = "select_ad"
             /\ ret'.gender = last_majority_gender )
           => last_ad_change_time'[ret'.gender] - last_ad_change_time[ret'.gender]
                >= AD_DISPLAY_DURATION
      ]_vars

\* the second select_ad for the same gender, a display duration after the first
C36_Witness ==
    /\ ret.op = "select_ad"
    /\ Len(ad_history) = 2
    /\ ad_history[1].gender = ret.gender
    /\ ad_history[2].gender = ret.gender
    /\ last_majority_gender = ret.gender
    /\ now >= StartTime + AD_DISPLAY_DURATION
    /\ ad_start_time = now

\* C22: ad_history never holds more than 100 entries, and after every select_ad call it
\* is the last 100 of the selections so far, in selection order.
C22_RollingHistory ==
    [][ (ret'.op = "select_ad" /\ ~ret'.raised)
        => /\ Len(ad_history') <= 100
           /\ ad_history' = LastN(Append(ad_history, ret'.ad), 100) ]_vars

\* 102 selections made, the female one the third: it is now the oldest of 100 entries
C22_Witness ==
    /\ Len(ad_history) = 100
    /\ local_analytics["MALE_A_JPG"] + local_analytics["FEMALE_A_JPG"] = 102
    /\ ad_history[1].gender = "female"
    /\ ad_history[100].gender = "male"

---------------------------------------------------------------------------
\* The claims about the identity tracker

\* C3: after every update call (and every reinitialize) all live track ids are pairwise
\* distinct and no live track has disappeared greater than max_disappeared (50)
C3_DistinctIdsBoundedAge ==
    /\ \A i, j \in DOMAIN objects : i # j => objects[i].id # objects[j].id
    /\ \A i \in DOMAIN objects : objects[i].disappeared <= max_disappeared

\* two live tracks, one of them missed for max_disappeared updates and still live
C3_Witness ==
    /\ Len(objects) = 2
    /\ objects[1].id # objects[2].id
    /\ \E i \in DOMAIN objects : objects[i].disappeared = max_disappeared

\* C4: track ids are process-lifetime unique and strictly increasing in creation
\* order: no id is handed out twice, also after tracks are removed and after the
\* camera is reinitialized
C4_IdsNeverReused ==
    \A i, j \in DOMAIN issued : i < j => issued[i] < issued[j]

\* the labels of a history
LabelsOf(history) == { history[i] : i \in DOMAIN history }

\* how often a label is in a history, and where it is for the last time
CountOf(history, label) == Cardinality({ i \in DOMAIN history : history[i] = label })
LastOf(history, label) ==
    CHOOSE i \in DOMAIN history :
       history[i] = label /\ \A j \in DOMAIN history : history[j] = label => j <= i

\* the mode of a history, ties going to the label that reached the maximal count
\* first: among the most frequent labels, the one whose last entry is the earliest
ModeFirstToReach(history) ==
    CHOOSE l \in LabelsOf(history) :
       \A k \in LabelsOf(history) :
          \/ CountOf(history, l) > CountOf(history, k)
          \/ /\ CountOf(history, l) = CountOf(history, k)
             /\ LastOf(history, l) <= LastOf(history, k)

\* C12: every live track's gender is the mode of its gender_history, ties broken in
\* favour of the label that first reached the maximal count.
C12_LabelIsMode ==
    \A i \in DOMAIN objects :
       objects[i].gender = ModeFirstToReach(objects[i].gender_history)

\* C13: after every update each live track's gender_history has at most 20 entries,
\* none of them Unknown (a track created from an Unknown observation starts with an
\* empty history), and an append to a full history drops its oldest entry.
C13_HistoryBoundedKnownLabels ==
    [][ \A i \in DOMAIN objects' :
          LET history == objects'[i].gender_history
          IN /\ Len(history) <= 20
             /\ \A j \in DOMAIN history : history[j] # "Unknown"
             /\ \A k \in DOMAIN objects :
                   ( /\ objects[k].id = objects'[i].id
                     /\ Len(objects[k].gender_history) = 20
                     /\ history # objects[k].gender_history )
                   => \E label \in {"Male", "Female"} :
                         history = Append(Tail(objects[k].gender_history), label) ]_vars

\* every (track, observation) pair processed by ascending distance, a pair accepted
\* iff neither side is matched and its distance is at most max_distance: the sets of
\* accepted pairs, one for each order of the pairs of equal distance
RECURSIVE GreedyPairs(_, _, _)
GreedyPairs(D, remaining, accepted) ==
    IF remaining = {} THEN { accepted }
    ELSE LET nearest == { p \in remaining :
                            \A q \in remaining : D[p[1]][p[2]] <= D[q[1]][q[2]] }
             Accept(p) == IF /\ \A a \in accepted : a[1] # p[1] /\ a[2] # p[2]
                             /\ D[p[1]][p[2]] <= max_distance * max_distance
                          THEN accepted \cup {p} ELSE accepted
         IN UNION { GreedyPairs(D, remaining \ {p}, Accept(p)) : p \in nearest }

\* C23: when there are tracks and observations, the (track, observation) pairs update
\* accepts are those of processing all pairs in ascending distance order.
C23_GreedyMatching ==
    [][ (ret'.op = "update" /\ objects # <<>> /\ ret'.rects # <<>>)
        => LET rects == ret'.rects
               D == DistMatrix(objects, [j \in DOMAIN rects |-> Centroid(rects[j].bbox)])
               accepted == { p \in (DOMAIN objects) \X (DOMAIN rects) :
                               \E k \in DOMAIN objects' :
                                  /\ objects'[k].id = objects[p[1]].id
                                  /\ objects'[k].hits = objects[p[1]].hits + 1
                                  /\ objects'[k].bbox = rects[p[2]].bbox }
           IN accepted \in GreedyPairs(D, (DOMAIN objects) \X (DOMAIN rects), {}) ]_vars

\* C31: an update call with n >= 1 observations leaves exactly n live tracks with
\* disappeared 0, one for each observation and carrying its box: either a track that
\* was live and has one hit more, or a new track with one hit.
C31_ObservationAccounting ==
    [][ (ret'.op = "update" /\ Len(ret'.rects) >= 1)
        => LET rects == ret'.rects
               seen == { k \in DOMAIN objects' : objects'[k].disappeared = 0 }
               of(j) == { k \in seen : objects'[k].bbox = rects[j].bbox }
               old(k) == { i \in DOMAIN objects : objects[i].id = objects'[k].id }
           IN /\ Cardinality(seen) = Len(rects)
              /\ \A j \in DOMAIN rects : Cardinality(of(j)) = 1
              /\ \A k \in seen :
                   IF old(k) = {} THEN objects'[k].hits = 1
                   ELSE \A i \in old(k) : objects'[k].hits = objects[i].hits + 1 ]_vars

\* two observations, of which one has updated a live track and the other, nearest to
\* a track that the first has taken, has created a track
C31_Witness ==
    /\ ret.op = "update"
    /\ ret.rects = <<PersonNear, PersonBeyond>>
    /\ Len(objects) = 3
    /\ \E k \in DOMAIN objects :
         /\ objects[k].bbox = PersonNear.bbox
         /\ objects[k].hits = 2
         /\ objects[k].disappeared = 0
    /\ \E k \in DOMAIN objects :
         /\ objects[k].bbox = PersonBeyond.bbox
         /\ objects[k].hits = 1
         /\ objects[k].disappeared = 0
    /\ \E k \in DOMAIN objects : objects[k].disappeared = 1

\* C26: a track unmatched in k consecutive update calls, with or without observations
\* in them, is live for every k <= 50 and removed at the 51st: an update call keeps
\* every track below 50 misses, takes a kept track's disappeared to 0 (a match) or one
\* up, never over 50, and removes a track only from 50 misses.
C26_AgeingBoundary ==
    [][ ret'.op = "update"
        => \A i \in DOMAIN objects :
              LET kept == { k \in DOMAIN objects' : objects'[k].id = objects[i].id }
              IN /\ objects[i].disappeared < max_disappeared => kept # {}
                 /\ kept = {} => objects[i].disappeared = 50
                 /\ \A k \in kept :
                      /\ objects'[k].disappeared \in {0, objects[i].disappeared + 1}
                      /\ objects'[k].disappeared <= 50
                      /\ objects'[k].disappeared = 0
                         => objects'[k].hits = objects[i].hits + 1 ]_vars

\* the 51st miss in a row has removed a track, in a frame with an observation
C26_Witness ==
    /\ ret.op = "update"
    /\ ret.rects # <<>>
    /\ Len(issued) = 2
    /\ \E i \in DOMAIN objects : objects[i].hits = 2 /\ objects[i].disappeared = 0
    /\ \E n \in DOMAIN issued : \A i \in DOMAIN objects : objects[i].id # issued[n]

\* C27: an update call that matches a track (the track is kept with disappeared 0)
\* adds exactly one to its hits and sets its confidence to the larger of its own and
\* the matched observation's; a miss changes neither; a new track starts at one hit.
\* So hits and confidence never decrease and hits is one more than the matches.
C27_MatchEffects ==
    [][ ret'.op = "update"
        => \A k \in DOMAIN objects' :
              LET was == { i \in DOMAIN objects : objects[i].id = objects'[k].id }
              IN /\ was = {} => objects'[k].hits = 1 /\ objects'[k].disappeared = 0
                 /\ \A i \in was :
                      /\ objects'[k].hits >= objects[i].hits
                      /\ objects'[k].confidence >= objects[i].confidence
                      /\ IF objects'[k].disappeared = 0
                         THEN /\ objects'[k].hits = objects[i].hits + 1
                              /\ \E j \in DOMAIN ret'.rects :
                                   /\ objects'[k].bbox = ret'.rects[j].bbox
                                   /\ objects'[k].confidence
                                      = Max(objects[i].confidence,
                                            ret'.rects[j].confidence)
                         ELSE /\ objects'[k].hits = objects[i].hits
                              /\ objects'[k].confidence = objects[i].confidence ]_vars

\* a track matched three times, last by an observation of lower confidence than its own
C27_Witness ==
    /\ ret.op = "update"
    /\ ret.rects = <<PersonMid>>
    /\ \E i \in DOMAIN objects :
         /\ objects[i].bbox = PersonMid.bbox
         /\ objects[i].hits = 4
         /\ objects[i].disappeared = 0
         /\ objects[i].confidence = PersonLeft.confidence
         /\ objects[i].confidence > PersonMid.confidence

---------------------------------------------------------------------------
\* The claims about the camera

\* C11: the counts of the last detection frame are: male (female) the number of live
\* tracks with hits >= 10 labelled Male (Female), total their sum; a track with hits 9
\* and a confirmed track labelled Unknown are in none of the three.
C11_CrowdAggregation ==
    LET n(label) == Cardinality({ i \in DOMAIN objects :
                                    objects[i].hits >= 10 /\ objects[i].gender = label })
    IN /\ last_detection_counts.male = n("Male")
       /\ last_detection_counts.female = n("Female")
       /\ last_detection_counts.total = n("Male") + n("Female")

\* a detection frame has counted one confirmed Male track and left out a track with
\* hits 9 and a confirmed Unknown track
C11_Witness ==
    /\ frame_skip_counter = 0
    /\ last_detection_counts = Counts(1, 0)
    /\ \E i \in DOMAIN objects : objects[i].hits = 9 /\ objects[i].gender = "Female"
    /\ \E i \in DOMAIN objects : objects[i].hits >= 10 /\ objects[i].gender = "Unknown"

\* C21: a get_frame call that skips detection leaves the tracks (with their hits and
\* disappeared counts) and next_object_id as they are and returns the counts the last
\* detection frame stored (zeros before the first one).
C21_FrameSkipping ==
    [][ (ret'.op = "get_frame" /\ ret'.frame /\ ~ret'.detected)
        => /\ UNCHANGED <<objects, next_object_id, issued, last_detection_counts>>
           /\ ret'.counts = last_detection_counts
           /\ ret'.counts = CrowdCounts(objects) ]_vars

\* a skipped frame has returned the counts of a confirmed track
C21_Witness ==
    /\ ret.op = "get_frame"
    /\ ret.frame
    /\ ~ret.detected
    /\ ret.counts.total > 0
    /\ \E i \in DOMAIN objects : objects[i].hits >= CONFIRM_HITS

\* C24: a get_frame call that gets no frame (the capture is not open or the read
\* fails) is a frame with zero observations: every live track's disappeared grows by
\* one and the tracks over max_disappeared are removed.
C24_CaptureFailureAges ==
    [][ (ret'.op = "get_frame" /\ ~ret'.frame)
        => objects' = MissedUpdate(objects, IdsOf(objects)) ]_vars

\* C37: with the loop calling get_frame for ever, if from some point on no detection
\* frame hands an observation to the tracker, then from some point on the tracker
\* holds no track and the counts of the camera and of every frame returned are
\* total = male = female = 0.
C37_TracksDrain ==
    <>[](~(ret.op = "get_frame" /\ ret.detected /\ Len(ret.rects) > 0))
    => <>[]( /\ objects = <<>>
             /\ last_detection_counts = Counts(0, 0)
             /\ (ret.op = "get_frame" /\ ret.frame) => ret.counts = Counts(0, 0) )

\* The same where from some point on the capture also delivers a frame to every call
DrainsWhileCapturing ==
    <>[]( /\ ~(ret.op = "get_frame" /\ ret.detected /\ Len(ret.rects) > 0)
          /\ ~(ret.op = "get_frame" /\ ~ret.frame) )
    => <>[]( /\ objects = <<>>
             /\ last_detection_counts = Counts(0, 0)
             /\ (ret.op = "get_frame" /\ ret.frame) => ret.counts = Counts(0, 0) )

\* C25 as stated: a track counts only after 10 consecutive matched updates. A track
\* below the threshold that had missed an update and is matched again by a detection
\* frame has a run of one match, so it is not among the tracks the frame counts.
C25_ConsecutiveConfirmation ==
    [][ (ret'.op = "get_frame" /\ ret'.detected)
        => LET restarted == { objects[i].id : i \in { j \in DOMAIN objects :
                                 /\ objects[j].hits < CONFIRM_HITS
                                 /\ objects[j].disappeared > 0 } }
               Continued(track) == ~(track.id \in restarted /\ track.disappeared = 0)
           IN ret'.counts = CrowdCounts(SelectSeq(objects', Continued)) ]_vars

\* C25 as the code has it: hits is the cumulative number of matches plus one for the
\* registration, a missed update leaves it as it is, and a labelled track is counted
\* by a detection frame iff its hits are at least 10, whatever was missed in between.
C25_CumulativeConfirmation ==
    [][ (ret'.op = "get_frame" /\ ret'.detected)
        => /\ \A i \in DOMAIN objects : \A k \in DOMAIN objects' :
                objects'[k].id = objects[i].id
                => objects'[k].hits = objects[i].hits
                                      + (IF objects'[k].disappeared = 0 THEN 1 ELSE 0)
           /\ \A label \in {"Male", "Female"} :
                ret'.counts[IF label = "Male" THEN "male" ELSE "female"]
                = Cardinality({ k \in DOMAIN objects' :
                                  /\ objects'[k].gender = label
                                  /\ objects'[k].hits >= CONFIRM_HITS })
           /\ ret'.counts.total = ret'.counts.male + ret'.counts.female ]_vars

\* the track that had missed an update at 9 hits is counted at its next match
C25_Witness ==
    /\ ret.op = "get_frame"
    /\ ret.detected
    /\ ret.counts = Counts(1, 0)
    /\ \E i \in DOMAIN objects :
         /\ objects[i].id = InterruptedTrack.id
         /\ objects[i].hits = CONFIRM_HITS
         /\ objects[i].disappeared = 0

\* C28: every detection over the person threshold, of the person class and with a
\* non-empty region yields exactly one raw observation, in order; it is labelled with
\* the classifier's gender when a face is found, the padded face is at least 20x20 and
\* the classifier's confidence is over the gender threshold, and Unknown otherwise.
C28_CascadeCompleteness ==
    ret.op = "detect"
    => LET Passes(det) ==
               /\ det.confidence > CONFIDENCE_THRESHOLD
               /\ det.idx = PERSON_CLASS_INDEX
               /\ RoiShape(Clamp(det.box))[1] * RoiShape(Clamp(det.box))[2] > 0
           passing == SelectSeq(ret.detections, Passes)
           Labelled(det) ==
               /\ det.faces # <<>>
               /\ LET shape == FaceRoiShape(LargestFace(det.faces),
                                            RoiShape(Clamp(det.box)))
                  IN shape[1] >= 20 /\ shape[2] >= 20
               /\ det.predicted.g \in {"Male", "Female"}
               /\ det.predicted.c > GENDER_CONFIDENCE_THRESHOLD
       IN /\ Len(ret.raw) = Len(passing)
          /\ \A k \in DOMAIN passing :
               k \in DOMAIN ret.raw
               => ret.raw[k].gender = IF Labelled(passing[k])
                                      THEN passing[k].predicted.g ELSE "Unknown"

\* the overlap ratio (IoU) of two boxes (x, y, w, h) is over 0.4
IoUOver(a, b) == 5 * RectInter(a, b) > 2 * RectUnion(a, b)

\* C14: of two raw boxes of a frame whose IoU exceeds 0.4 only the one with the higher
\* confidence is given to the tracker, and two raw boxes whose IoU is at most 0.4 are
\* both given to it, wherever they lie in the frame.
C14_DuplicateSuppression ==
    (ret.op = "get_frame" /\ ret.detected /\ Len(ret.raw) = 2)
    => LET a == ret.raw[1]
           b == ret.raw[2]
           given == { ret.rects[i] : i \in DOMAIN ret.rects }
       IN IF IoUOver(a.bbox, b.bbox)
          THEN given = { IF a.confidence > b.confidence THEN a ELSE b }
          ELSE given = {a, b}

---------------------------------------------------------------------------
\* The claims about the threads

Threads == {Worker} \cup Requests

\* the locks a thread holds
LocksHeld(t) ==
    { l \in {"global_lock", "ad_lock", "model_lock"} :
        t = (IF l = "global_lock" THEN global_lock
             ELSE IF l = "ad_lock" THEN ad_lock ELSE model_lock) }

\* the lock a thread is about to acquire, "none" when it is not at an acquisition
WaitsFor(t) ==
    IF t = Worker
    THEN CASE pc = "detect" -> "model_lock"
           [] pc \in {"publish", "stats"} -> "global_lock"
           [] pc = "decide" /\ w_counts.total > 0 -> "ad_lock"
           [] pc \in {"select", "stats_global"} -> "ad_lock"
           [] OTHER -> "none"
    ELSE CASE req[t] \in {"analytics", "people_count"} -> "global_lock"
           [] req[t] \in {"current_ad", "analytics_global"} -> "ad_lock"
           [] OTHER -> "none"

\* C15: an exception raised in an iteration of the processing loop leaves the worker
\* in its handler holding no lock, and from there the worker comes to its next
\* get_frame call (unless a request has turned the camera off, when it polls).
C15_LoopSurvivesErrors ==
    /\ [](pc = "backoff" => LocksHeld(Worker) = {})
    /\ (pc = "backoff" ~> (pc = "capture" \/ ~cap_opened))

\* the person detection has raised under model_lock, with the model loaded, and the
\* worker is in its handler with the lock released
C15_Witness ==
    /\ pc = "backoff"
    /\ ret.op = "raise"
    /\ ret.kind = "detect"
    /\ person_net
    /\ model_lock = Free

\* C16: when the person model is not loaded at startup the processing loop does not
\* run: the worker never leaves the head of its loop.
C16_HaltsWithoutPersonModel ==
    ~person_net => pc = "frame"

\* C19: a reinitialize never comes between the worker's tracker update and its
\* aggregation: when the worker stores the counts of its update, they are the counts
\* of the tracks of the camera's tracker.
C19_TrackerMutualExclusion ==
    pc = "count" => w_counts = CrowdCounts(objects)

\* C29: the ad manager's operations hold ad_lock throughout, so get_ad_history and
\* get_ad_analytics never read while a select_ad call has written current_ad, the
\* trigger times and the display count but not yet the history.
C29_AdManagerMutualExclusion ==
    [][ ret'.op \in {"get_ad_history", "get_ad_analytics"}
        => pc # "appending" ]_vars

\* C20: no state has every thread waiting for a lock another thread holds; a thread
\* holding ad_lock is never about to acquire global_lock; no thread is about to
\* acquire a lock it holds.
C20_DeadlockFreedom ==
    /\ \E t \in Threads : WaitsFor(t) = "none" \/ \A u \in Threads : WaitsFor(t) \notin LocksHeld(u)
    /\ \A t \in Threads : "ad_lock" \in LocksHeld(t) => WaitsFor(t) # "global_lock"
    /\ \A t \in Threads : WaitsFor(t) \notin LocksHeld(t)

\* the worker holds global_lock and ad_lock for its statistics while one request
\* waits for global_lock and the other for ad_lock
C20_Witness ==
    /\ pc = "stats_ad"
    /\ LocksHeld(Worker) = {"global_lock", "ad_lock"}
    /\ WaitsFor("r1") = "global_lock"
    /\ WaitsFor("r2") = "ad_lock"

=============================================================================
